---- MODULE Spec2Model ----
(***************************************************************************)
(* Model of the zq type registry (zng/type.go) and of the field-path       *)
(* evaluator (expr/fieldexpr.go).                                          *)
(*                                                                         *)
(* Strings are sequences of tokens: a maximal run of identifier characters *)
(* (isIdChar) is one token, each punctuation character and each blank is a *)
(* token of its own.  Type objects live in a heap and are named by their   *)
(* index (the Go pointer); 0 is the nil pointer.                           *)
(***************************************************************************)
EXTENDS Integers, Sequences, FiniteSets, TLC

VARIABLES
    heap,          \* type objects, indexed by pointer
    slices,        \* backing arrays of []Column, indexed by slice id
    typeMap,       \* the registry: key (token sequence) -> pointer
    typeMapMutex,  \* sync.RWMutex: [writer, readers]
    stack,         \* per thread: the call stack of frames
    ret,           \* per thread: the values returned by the last frame
    call,          \* per thread: the API call in progress (or idle)
    ncalls,        \* number of API calls started so far
    issued,        \* history: [key, ptr] of every type returned to a caller
    inserted,      \* history: [key, ptr] of every write to typeMap
    discarded,     \* history: candidate objects that lost to an older entry
    evRec,         \* the record handed to the resolver: [Type, Raw]
    evPath,        \* the compiled path: [field, ops]
    evI,           \* number of operations of the path applied so far
    evE,           \* the resolver's current value e: [Type, Body]
    evPrev,        \* the value the last operation was applied to
    evPc,          \* position: "compile", "error", "top", "ops" or "done"
    evAst,         \* the path AST handed to CompileFieldExpr, outermost node first
    evErr,         \* the error CompileFieldExpr returned, "" for none
    evRead,        \* history: the resolver has read the record's body
    evStr,         \* the string FieldExprToString returned, NotPrinted before
    pResolvers,    \* the compiled resolvers: the field and ops each closure holds
    pRecords,      \* the records the resolvers are called on
    pCall,         \* the resolver call in progress: [p, r], NoCall between calls
    pCalls,        \* number of resolver calls started so far
    pResults,      \* history: per resolver and record, the values returned
    rdFormat,      \* the reader's input format: "zng" or "zjson"
    rdStream,      \* the lines of the input stream
    rdPos,         \* number of lines the reader has consumed
    rdTags,        \* the stream's typedefs: tag -> type pointer
    rdOut,         \* the records delivered so far
    rdErr,         \* the error that ended the stream, "" for none
    rdPc,          \* the reader's position
    clE,           \* the value handed to ContainerLength: [Type, Body]
    clElems,       \* history: the number of elements clE was encoded from, -1 if none
    clRet,         \* what ContainerLength returned: [n, err], NoLength before
    eos,           \* ProcTest.eos
    Warnings,      \* ProcTest.ctx.Warnings: the buffered channel's contents
    compiledProc,  \* ProcTest.compiledProc: [script, idx], a proc of scripted pulls
    ptRet,         \* what the last method of ProcTest returned: [op, b, err]
    ptOps,         \* number of methods of ProcTest called so far
    cfNodes,       \* the nodes handed to CompileFieldExprs: [isnil, elems]
    cfRet          \* what CompileFieldExprs returned: [isnil, resolvers, err]

regVars == <<heap, slices, typeMap, typeMapMutex, stack, ret, call, ncalls,
             issued, inserted, discarded>>

evVars == <<evRec, evPath, evI, evE, evPrev, evPc, evAst, evErr, evRead, evStr>>

pureVars == <<pResolvers, pRecords, pCall, pCalls, pResults>>

rdVars == <<rdFormat, rdStream, rdPos, rdTags, rdOut, rdErr, rdPc>>

lenVars == <<clE, clElems, clRet>>

ptVars == <<eos, Warnings, compiledProc, ptRet, ptOps>>

cfVars == <<cfNodes, cfRet>>

utilVars == <<lenVars, ptVars, cfVars>>

vars == <<regVars, evVars, pureVars, rdVars, utilVars>>

\* ------------------------------------------------------------------ bounds

MaxCalls == 2
MaxElems == 2
MaxOps == 2
MaxEvals == 3
MaxLines == 3
MaxPulls == 2
MaxTestOps == 3

Threads == {"t1", "t2"}

Nil == 0
NoThread == "none"

\* ------------------------------------------------------------ type objects

Obj(kind, name, inner, cols, key) ==
    [kind |-> kind, name |-> name, inner |-> inner, cols |-> cols, key |-> key]

TypeOfPrim(name) == Obj("prim", name, Nil, 0, <<>>)
TypeSet(innerType) == Obj("set", "", innerType, 0, <<>>)
TypeVector(typ) == Obj("vector", "", typ, 0, <<>>)
TypeRecord(columns, key) == Obj("record", "", Nil, columns, key)

Column(name, typ) == [Name |-> name, Type |-> typ]

\* The predeclared primitive objects, in the order of the var block.
PrimNames == <<"bool", "count", "int", "double", "time", "interval", "string",
               "pattern", "port", "addr", "subnet", "enum", "unset">>

PrimPtr(name) == CHOOSE i \in 1..Len(PrimNames) : PrimNames[i] = name

TypeInt == PrimPtr("int")
TypeString == PrimPtr("string")
TypeDouble == PrimPtr("double")
TypePattern == PrimPtr("pattern")

InitHeap == [i \in 1..Len(PrimNames) |-> TypeOfPrim(PrimNames[i])]

\* The map literal: every primitive under its name, plus the zql name regexp.
InitTypeMap ==
    [k \in {<<PrimNames[i]>> : i \in 1..Len(PrimNames)} \cup {<<"regexp">>} |->
        IF k = <<"regexp">> THEN TypePattern ELSE PrimPtr(k[1])]

\* --------------------------------------------------------- printing types

RECURSIVE TypeStr(_, _, _)
RECURSIVE ColumnString(_, _, _)

\* The columns of a record printed as name:type,name:type
ColumnString(h, sl, columns) ==
    IF columns = <<>> THEN <<>>
    ELSE <<columns[1].Name, ":">> \o TypeStr(h, sl, columns[1].Type)
         \o (IF Len(columns) > 1 THEN <<",">> ELSE <<>>)
         \o ColumnString(h, sl, Tail(columns))

recordString(h, sl, columns) ==
    <<"record", "[">> \o ColumnString(h, sl, columns) \o <<"]">>

\* Type.String(): the canonical printed form of the object at pointer p.
TypeStr(h, sl, p) ==
    CASE h[p].kind = "prim" -> <<h[p].name>>
      [] h[p].kind = "set" -> <<"set", "[">> \o TypeStr(h, sl, h[p].inner) \o <<"]">>
      [] h[p].kind = "vector" -> <<"vector", "[">> \o TypeStr(h, sl, h[p].inner) \o <<"]">>
      [] h[p].kind = "record" -> recordString(h, sl, sl[h[p].cols])

String(p) == TypeStr(heap, slices, p)

\* --------------------------------------------------------- parsing helpers

Punct == {"[", "]", ",", ":", " "}

isIdChar(c) == c \notin Punct

RECURSIVE TrimLeft(_)
TrimLeft(s) == IF s # <<>> /\ s[1] = " " THEN TrimLeft(Tail(s)) ELSE s

RECURSIVE TrimRight(_)
TrimRight(s) ==
    IF s # <<>> /\ s[Len(s)] = " " THEN TrimRight(SubSeq(s, 1, Len(s) - 1)) ELSE s

TrimSpace(s) == TrimRight(TrimLeft(s))

\* parseWord returns [rest, word]; the empty word is "".
parseWord(in) ==
    LET s == TrimSpace(in) IN
    IF s = <<>> \/ ~isIdChar(s[1]) THEN [rest |-> <<>>, word |-> ""]
    ELSE [rest |-> Tail(s), word |-> s[1]]

\* match reports whether in starts with tok.
match(in, tok) == in # <<>> /\ in[1] = tok

\* ------------------------------------------------------ frames and returns

Frame(pc, in, t) ==
    [pc |-> pc, in |-> in, rest |-> <<>>, word |-> "", t |-> t, ok |-> FALSE,
     cols |-> <<>>, name |-> "", slice |-> 0]

RetVal(rest, typ, err) == [rest |-> rest, typ |-> typ, err |-> err]

NoRet == RetVal(<<>>, Nil, "")

Idle == [op |-> "idle", slice |-> 0, expect |-> Nil]

top(t) == stack[t][Len(stack[t])]

at(t, pc) == stack[t] # <<>> /\ top(t).pc = pc

\* The three ways a step leaves the thread's stack: continue in the same
\* frame, call a function (push), or return a value (pop).
Cont(t, f) == [stk |-> [stack[t] EXCEPT ![Len(stack[t])] = f], ret |-> ret[t]]

Invoke(t, f, g) ==
    [stk |-> Append([stack[t] EXCEPT ![Len(stack[t])] = f], g), ret |-> ret[t]]

Leave(t, v) == [stk |-> SubSeq(stack[t], 1, Len(stack[t]) - 1), ret |-> v]

Do(t, o) ==
    /\ stack' = [stack EXCEPT ![t] = o.stk]
    /\ ret' = [ret EXCEPT ![t] = o.ret]

\* ------------------------------------------------------------ sync.RWMutex

CanRLock == typeMapMutex.writer = NoThread

CanLock == typeMapMutex.writer = NoThread /\ typeMapMutex.readers = {}

RLock(t) == CanRLock /\ typeMapMutex' = [typeMapMutex EXCEPT !.readers = @ \cup {t}]

RUnlock_held(t) == typeMapMutex' = typeMapMutex

RUnlock(t) == typeMapMutex' = [typeMapMutex EXCEPT !.readers = @ \ {t}]

Lock(t) == CanLock /\ typeMapMutex' = [typeMapMutex EXCEPT !.writer = t]

Unlock(t) ==
    typeMapMutex' = [typeMapMutex EXCEPT !.writer = IF @ = t THEN NoThread ELSE @]

\* ------------------------------------------------------------------ inputs

\* Pointers a caller can hold: the primitive int and everything issued.
Held == {TypeInt} \cup {i.ptr : i \in issued}

\* Types whose printed form a caller hands back to LookupType.
Printable == Held \cup {TypePattern}

HeldCompound == {p \in Held : heap[p].kind # "prim"}

\* Type strings handed to LookupType, besides the printed form of held types.
TypeInputs ==
    { <<" ", "int">>,
      <<"vector", "[", "int", "]">>,
      <<"set", "[", "int", "]">>,
      <<"record", "[", "a", ":", "int", "]">>,
      <<"record", "[", "a", ":", "vector", "[", "int", "]", "]">>,
      <<"foo">> }

\* Column slices handed to LookupTypeRecord.
ColumnInputs ==
    { <<Column("a", TypeInt)>>,
      <<Column("a", TypeInt), Column("b", TypeString)>> }
    \cup {<<Column("a", p)>> : p \in HeldCompound}

\* What a caller writes into its own slice after the call returned.
Scribble == Column("z", TypeString)

\* ------------------------------------------------------------------- Init

\* ContainerLength is not in use.
LenIdle ==
    /\ clE = [Type |-> 0, Body |-> [isnil |-> TRUE, b |-> <<>>]]
    /\ clElems = -1
    /\ clRet = [n |-> 0, err |-> "not called"]

\* ProcTest is not in use.
ProcTestIdle ==
    /\ eos = FALSE
    /\ Warnings = <<>>
    /\ compiledProc = [script |-> <<>>, idx |-> 0]
    /\ ptRet = [op |-> "", b |-> [isnil |-> TRUE, recs |-> <<>>], err |-> ""]
    /\ ptOps = 0

\* CompileFieldExprs is not in use.
CompileIdle ==
    /\ cfNodes = [isnil |-> TRUE, elems |-> <<>>]
    /\ cfRet = [isnil |-> TRUE, resolvers |-> <<>>, err |-> "not called"]

UtilIdle == LenIdle /\ ProcTestIdle /\ CompileIdle

Init ==
    /\ heap = InitHeap
    /\ slices = <<>>
    /\ typeMap = InitTypeMap
    /\ typeMapMutex = [writer |-> NoThread, readers |-> {}]
    /\ stack = [t \in Threads |-> <<>>]
    /\ ret = [t \in Threads |-> NoRet]
    /\ call = [t \in Threads |-> Idle]
    /\ ncalls = 0
    /\ issued = {}
    /\ inserted = {}
    /\ discarded = {}
    /\ evRec = [Type |-> Nil, Raw |-> <<>>]
    /\ evPath = [field |-> "", ops |-> <<>>]
    /\ evI = 0
    /\ evE = [Type |-> Nil, Body |-> [isnil |-> TRUE, b |-> <<>>]]
    /\ evPrev = [Type |-> Nil, Body |-> [isnil |-> TRUE, b |-> <<>>]]
    /\ evPc = "idle"
    /\ evAst = <<>>
    /\ evErr = ""
    /\ evRead = FALSE
    /\ evStr = <<"">>
    /\ pResolvers = <<>>
    /\ pRecords = <<>>
    /\ pCall = [p |-> 0, r |-> 0]
    /\ pCalls = 0
    /\ pResults = <<>>
    /\ rdFormat = "zng"
    /\ rdStream = <<>>
    /\ rdPos = 0
    /\ rdTags = <<>>
    /\ rdOut = <<>>
    /\ rdErr = ""
    /\ rdPc = "idle"
    /\ UtilIdle

\* --------------------------------------------------------------- API calls

\* A thread between calls may start one.  The threads are interchangeable, so
\* the first call of a run is taken to be t1's.
CanCall(t) ==
    /\ call[t].op = "idle" /\ stack[t] = <<>> /\ ncalls < MaxCalls
    /\ ncalls = 0 => t = "t1"

CallLookupType(t) ==
    /\ CanCall(t)
    /\ \E e \in {[in |-> in, expect |-> Nil] : in \in TypeInputs}
              \cup {[in |-> String(p), expect |-> p] : p \in Printable} :
          /\ call' = [call EXCEPT ![t] = [op |-> "LookupType", slice |-> 0,
                                          expect |-> e.expect]]
          /\ stack' = [stack EXCEPT ![t] = <<Frame("pt_rlock1", e.in, Nil)>>]
    /\ ncalls' = ncalls + 1
    /\ ret' = [ret EXCEPT ![t] = NoRet]
    /\ UNCHANGED <<evVars, pureVars, rdVars, utilVars>>
    /\ UNCHANGED <<heap, slices, typeMap, typeMapMutex, issued, inserted, discarded>>

CallLookupVectorType(t) ==
    /\ CanCall(t)
    /\ \E innerType \in Held :
          /\ heap' = Append(heap, TypeVector(innerType))
          /\ stack' = [stack EXCEPT ![t] = <<Frame("at_lock", <<>>, Len(heap) + 1)>>]
    /\ call' = [call EXCEPT ![t] = [op |-> "LookupVectorType", slice |-> 0,
                                    expect |-> Nil]]
    /\ ncalls' = ncalls + 1
    /\ ret' = [ret EXCEPT ![t] = NoRet]
    /\ UNCHANGED <<evVars, pureVars, rdVars, utilVars>>
    /\ UNCHANGED <<slices, typeMap, typeMapMutex, issued, inserted, discarded>>

CallLookupTypeRecord(t) ==
    /\ CanCall(t)
    /\ \E columns \in ColumnInputs :
          /\ slices' = Append(slices, columns)
          /\ stack' = [stack EXCEPT ![t] =
                <<[Frame("ltr_rlock", recordString(heap, slices, columns), Nil)
                      EXCEPT !.slice = Len(slices) + 1]>>]
    /\ call' = [call EXCEPT ![t] = [op |-> "LookupTypeRecord",
                                    slice |-> Len(slices) + 1, expect |-> Nil]]
    /\ ncalls' = ncalls + 1
    /\ ret' = [ret EXCEPT ![t] = NoRet]
    /\ UNCHANGED <<evVars, pureVars, rdVars, utilVars>>
    /\ UNCHANGED <<heap, typeMap, typeMapMutex, issued, inserted, discarded>>

\* The API call returns to its caller, who now holds the returned type.
Return(t) ==
    /\ call[t].op # "idle" /\ stack[t] = <<>>
    /\ issued' = issued \cup
          (IF ret[t].typ = Nil THEN {}
           ELSE {[key |-> String(ret[t].typ), ptr |-> ret[t].typ]})
    /\ call' = [call EXCEPT ![t] = [Idle EXCEPT !.slice = call[t].slice]]
    /\ UNCHANGED <<evVars, pureVars, rdVars, utilVars>>
    /\ UNCHANGED <<heap, slices, typeMap, typeMapMutex, stack, ret, ncalls,
                   inserted, discarded>>

\* After LookupTypeRecord returned, the caller overwrites an element of the
\* columns slice it passed in.
MutateColumns(t) ==
    /\ call[t].op = "idle" /\ call[t].slice # 0
    /\ \E i \in 1..Len(slices[call[t].slice]) :
          slices' = [slices EXCEPT ![call[t].slice][i] = Scribble]
    /\ call' = [call EXCEPT ![t] = Idle]
    /\ UNCHANGED <<evVars, pureVars, rdVars, utilVars>>
    /\ UNCHANGED <<heap, typeMap, typeMapMutex, stack, ret, ncalls, issued,
                   inserted, discarded>>

\* ---------------------------------------------------------------- addType

\* Faulty variant: the candidate is returned even when the key is taken.
addTypeSection_keepCandidate(tm, key, t) ==
    IF key \in DOMAIN tm
    THEN [typeMap |-> tm, t |-> t, wrote |-> FALSE]
    ELSE [typeMap |-> tm @@ (key :> t), t |-> t, wrote |-> TRUE]

\* Faulty variant: the candidate is stored even when the key is taken.
addTypeSection_overwrite(tm, key, t) ==
    [typeMap |-> [k \in DOMAIN tm \cup {key} |-> IF k = key THEN t ELSE tm[k]],
     t |-> t, wrote |-> TRUE]

\* The exclusive section of addType: [typeMap, t, wrote].
addTypeSection(tm, key, t) ==
    IF key \in DOMAIN tm
    THEN [typeMap |-> tm, t |-> tm[key], wrote |-> FALSE]
    ELSE [typeMap |-> tm @@ (key :> t), t |-> t, wrote |-> TRUE]

addType_Lock(t) ==
    /\ at(t, "at_lock")
    /\ Lock(t)
    /\ Do(t, Cont(t, [top(t) EXCEPT !.pc = "at_access"]))
    /\ UNCHANGED <<evVars, pureVars, rdVars, utilVars>>
    /\ UNCHANGED <<heap, slices, typeMap, call, ncalls, issued, inserted, discarded>>

addType_Access(t) ==
    /\ at(t, "at_access")
    /\ LET key == String(top(t).t)
           r == addTypeSection(typeMap, key, top(t).t)
       IN /\ typeMap' = r.typeMap
          /\ inserted' = IF r.wrote THEN inserted \cup {[key |-> key, ptr |-> r.t]}
                         ELSE inserted
          /\ discarded' = IF r.t # top(t).t THEN discarded \cup {top(t).t}
                          ELSE discarded
          /\ Do(t, Cont(t, [top(t) EXCEPT !.pc = "at_unlock", !.t = r.t]))
    /\ UNCHANGED <<evVars, pureVars, rdVars, utilVars>>
    /\ UNCHANGED <<heap, slices, typeMapMutex, call, ncalls, issued>>

addType_Unlock(t) ==
    /\ at(t, "at_unlock")
    /\ Unlock(t)
    /\ Do(t, Leave(t, RetVal(<<>>, top(t).t, "")))
    /\ UNCHANGED <<evVars, pureVars, rdVars, utilVars>>
    /\ UNCHANGED <<heap, slices, typeMap, call, ncalls, issued, inserted, discarded>>

\* -------------------------------------------------------------- parseType

\* Faulty variant: the first lookup reads the map without the read lock.
parseType_RLock1_unlocked(t) ==
    /\ at(t, "pt_rlock1")
    /\ Do(t, Cont(t, [top(t) EXCEPT !.pc = "pt_read1"]))
    /\ UNCHANGED <<evVars, pureVars, rdVars, utilVars>>
    /\ UNCHANGED <<heap, slices, typeMap, typeMapMutex, call, ncalls, issued,
                   inserted, discarded>>

parseType_RLock1(t) ==
    /\ at(t, "pt_rlock1")
    /\ RLock(t)
    /\ Do(t, Cont(t, [top(t) EXCEPT !.pc = "pt_read1"]))
    /\ UNCHANGED <<evVars, pureVars, rdVars, utilVars>>
    /\ UNCHANGED <<heap, slices, typeMap, call, ncalls, issued, inserted, discarded>>

\* t, ok := typeMap[key]
MapRead(f, key) ==
    IF key \in DOMAIN typeMap THEN [f EXCEPT !.t = typeMap[key], !.ok = TRUE]
    ELSE [f EXCEPT !.t = Nil, !.ok = FALSE]

parseType_Read1(t) ==
    /\ at(t, "pt_read1")
    /\ Do(t, Cont(t, [MapRead(top(t), TrimSpace(top(t).in)) EXCEPT !.pc = "pt_runlock1"]))
    /\ UNCHANGED <<evVars, pureVars, rdVars, utilVars>>
    /\ UNCHANGED <<heap, slices, typeMap, typeMapMutex, call, ncalls, issued,
                   inserted, discarded>>

parseType_RUnlock1(t) ==
    /\ at(t, "pt_runlock1")
    /\ RUnlock(t)
    /\ LET f == top(t)
           w == parseWord(f.in)
       IN Do(t, IF f.ok THEN Leave(t, RetVal(<<>>, f.t, ""))
                ELSE IF w.word = "" THEN Leave(t, RetVal(<<>>, Nil, "unknown type"))
                ELSE Cont(t, [f EXCEPT !.pc = "pt_rlock2", !.rest = w.rest,
                                       !.word = w.word]))
    /\ UNCHANGED <<evVars, pureVars, rdVars, utilVars>>
    /\ UNCHANGED <<heap, slices, typeMap, call, ncalls, issued, inserted, discarded>>

parseType_RLock2(t) ==
    /\ at(t, "pt_rlock2")
    /\ RLock(t)
    /\ Do(t, Cont(t, [top(t) EXCEPT !.pc = "pt_read2"]))
    /\ UNCHANGED <<evVars, pureVars, rdVars, utilVars>>
    /\ UNCHANGED <<heap, slices, typeMap, call, ncalls, issued, inserted, discarded>>

parseType_Read2(t) ==
    /\ at(t, "pt_read2")
    /\ Do(t, Cont(t, [MapRead(top(t), <<top(t).word>>) EXCEPT !.pc = "pt_runlock2"]))
    /\ UNCHANGED <<evVars, pureVars, rdVars, utilVars>>
    /\ UNCHANGED <<heap, slices, typeMap, typeMapMutex, call, ncalls, issued,
                   inserted, discarded>>

\* The switch on word: the pc at which the body parser of the word starts.
BodyStart(word) ==
    CASE word = "set" -> "sb_start"
      [] word = "vector" -> "vb_start"
      [] word = "record" -> "rb_start"
      [] OTHER -> ""

parseType_RUnlock2(t) ==
    /\ at(t, "pt_runlock2")
    /\ RUnlock(t)
    /\ LET f == top(t) IN
       Do(t, IF f.ok THEN Leave(t, RetVal(f.rest, f.t, ""))
             ELSE IF BodyStart(f.word) = "" THEN Leave(t, RetVal(<<>>, Nil, "unknown type"))
             ELSE Invoke(t, [f EXCEPT !.pc = "pt_body_ret"],
                         Frame(BodyStart(f.word), f.rest, Nil)))
    /\ UNCHANGED <<evVars, pureVars, rdVars, utilVars>>
    /\ UNCHANGED <<heap, slices, typeMap, call, ncalls, issued, inserted, discarded>>

\* rest, t, err := parseXTypeBody(rest); return rest, addType(t), nil
parseType_BodyRet(t) ==
    /\ at(t, "pt_body_ret")
    /\ Do(t, IF ret[t].err # "" THEN Leave(t, RetVal(<<>>, Nil, ret[t].err))
             ELSE Invoke(t, [top(t) EXCEPT !.pc = "pt_add_ret", !.rest = ret[t].rest],
                         Frame("at_lock", <<>>, ret[t].typ)))
    /\ UNCHANGED <<evVars, pureVars, rdVars, utilVars>>
    /\ UNCHANGED <<heap, slices, typeMap, typeMapMutex, call, ncalls, issued,
                   inserted, discarded>>

parseType_AddRet(t) ==
    /\ at(t, "pt_add_ret")
    /\ Do(t, Leave(t, RetVal(top(t).rest, ret[t].typ, "")))
    /\ UNCHANGED <<evVars, pureVars, rdVars, utilVars>>
    /\ UNCHANGED <<heap, slices, typeMap, typeMapMutex, call, ncalls, issued,
                   inserted, discarded>>

\* ------------------------------------------- the bodies of compound types

\* set[ type ]
parseSetTypeBody_Start(t) ==
    /\ at(t, "sb_start")
    /\ LET f == top(t) IN
       Do(t, IF match(f.in, "[")
             THEN Invoke(t, [f EXCEPT !.pc = "sb_ret"], Frame("pt_rlock1", Tail(f.in), Nil))
             ELSE Leave(t, RetVal(<<>>, Nil, "type syntax")))
    /\ UNCHANGED <<evVars, pureVars, rdVars, utilVars>>
    /\ UNCHANGED <<heap, slices, typeMap, typeMapMutex, call, ncalls, issued,
                   inserted, discarded>>

parseSetTypeBody_Ret(t) ==
    /\ at(t, "sb_ret")
    /\ LET r == ret[t]
           bad == IF r.err # "" THEN r.err
                  ELSE IF ~match(r.rest, "]") THEN "type syntax"
                  ELSE IF heap[r.typ].kind # "prim" THEN "invalid type"
                  ELSE ""
       IN IF bad # ""
          THEN Do(t, Leave(t, RetVal(<<>>, Nil, bad))) /\ UNCHANGED heap
          ELSE /\ heap' = Append(heap, TypeSet(r.typ))
               /\ Do(t, Leave(t, RetVal(Tail(r.rest), Len(heap) + 1, "")))
    /\ UNCHANGED <<evVars, pureVars, rdVars, utilVars>>
    /\ UNCHANGED <<slices, typeMap, typeMapMutex, call, ncalls, issued, inserted,
                   discarded>>

\* vector[ type ]
parseVectorTypeBody_Start(t) ==
    /\ at(t, "vb_start")
    /\ LET f == top(t) IN
       Do(t, IF match(f.in, "[")
             THEN Invoke(t, [f EXCEPT !.pc = "vb_ret"], Frame("pt_rlock1", Tail(f.in), Nil))
             ELSE Leave(t, RetVal(<<>>, Nil, "type syntax")))
    /\ UNCHANGED <<evVars, pureVars, rdVars, utilVars>>
    /\ UNCHANGED <<heap, slices, typeMap, typeMapMutex, call, ncalls, issued,
                   inserted, discarded>>

parseVectorTypeBody_Ret(t) ==
    /\ at(t, "vb_ret")
    /\ LET r == ret[t]
           bad == IF r.err # "" THEN r.err
                  ELSE IF ~match(r.rest, "]") THEN "type syntax"
                  ELSE ""
       IN IF bad # ""
          THEN Do(t, Leave(t, RetVal(<<>>, Nil, bad))) /\ UNCHANGED heap
          ELSE /\ heap' = Append(heap, TypeVector(r.typ))
               /\ Do(t, Leave(t, RetVal(Tail(r.rest), Len(heap) + 1, "")))
    /\ UNCHANGED <<evVars, pureVars, rdVars, utilVars>>
    /\ UNCHANGED <<slices, typeMap, typeMapMutex, call, ncalls, issued, inserted,
                   discarded>>

\* The head of a column, name ":", in front of its type: [ok, name, rest].
ColumnHead(in) ==
    LET w == parseWord(in) IN
    [ok |-> w.word # "" /\ match(w.rest, ":"), name |-> w.word,
     rest |-> IF w.rest = <<>> THEN <<>> ELSE Tail(w.rest)]

ColumnNames(columns) == {columns[i].Name : i \in 1..Len(columns)}

\* record[ name:type , name:type ... ]
parseRecordTypeBody_Start(t) ==
    /\ at(t, "rb_start")
    /\ LET f == top(t)
           h == ColumnHead(IF f.in = <<>> THEN <<>> ELSE Tail(f.in))
       IN Do(t, IF match(f.in, "[") /\ h.ok
                THEN Invoke(t, [f EXCEPT !.pc = "rb_ret", !.name = h.name],
                            Frame("pt_rlock1", h.rest, Nil))
                ELSE Leave(t, RetVal(<<>>, Nil, "type syntax")))
    /\ UNCHANGED <<evVars, pureVars, rdVars, utilVars>>
    /\ UNCHANGED <<heap, slices, typeMap, typeMapMutex, call, ncalls, issued,
                   inserted, discarded>>

\* Faulty variant: a column is compared with no earlier column.
parseRecordTypeBody_Ret_noDup(t) ==
    /\ at(t, "rb_ret")
    /\ LET f == top(t)
           r == ret[t]
           columns == Append(f.cols, Column(f.name, r.typ))
           h == ColumnHead(IF r.rest = <<>> THEN <<>> ELSE Tail(r.rest))
       IN IF r.err # ""
          THEN Do(t, Leave(t, RetVal(<<>>, Nil, r.err))) /\ UNCHANGED <<heap, slices>>
          ELSE IF FALSE
          THEN Do(t, Leave(t, RetVal(<<>>, Nil, "duplicate fields")))
               /\ UNCHANGED <<heap, slices>>
          ELSE IF match(r.rest, ",") /\ h.ok
          THEN Do(t, Invoke(t, [f EXCEPT !.cols = columns, !.name = h.name],
                            Frame("pt_rlock1", h.rest, Nil)))
               /\ UNCHANGED <<heap, slices>>
          ELSE IF match(r.rest, "]")
          THEN /\ slices' = Append(slices, columns)
               /\ heap' = Append(heap, TypeRecord(Len(slices) + 1,
                                                  recordString(heap, slices, columns)))
               /\ Do(t, Leave(t, RetVal(Tail(r.rest), Len(heap) + 1, "")))
          ELSE Do(t, Leave(t, RetVal(<<>>, Nil, "type syntax")))
               /\ UNCHANGED <<heap, slices>>
    /\ UNCHANGED <<evVars, pureVars, rdVars, utilVars>>
    /\ UNCHANGED <<typeMap, typeMapMutex, call, ncalls, issued, inserted, discarded>>

parseRecordTypeBody_Ret(t) ==
    /\ at(t, "rb_ret")
    /\ LET f == top(t)
           r == ret[t]
           columns == Append(f.cols, Column(f.name, r.typ))
           h == ColumnHead(IF r.rest = <<>> THEN <<>> ELSE Tail(r.rest))
       IN IF r.err # ""
          THEN Do(t, Leave(t, RetVal(<<>>, Nil, r.err))) /\ UNCHANGED <<heap, slices>>
          ELSE IF f.name \in ColumnNames(f.cols)
          THEN Do(t, Leave(t, RetVal(<<>>, Nil, "duplicate fields")))
               /\ UNCHANGED <<heap, slices>>
          ELSE IF match(r.rest, ",") /\ h.ok
          THEN Do(t, Invoke(t, [f EXCEPT !.cols = columns, !.name = h.name],
                            Frame("pt_rlock1", h.rest, Nil)))
               /\ UNCHANGED <<heap, slices>>
          ELSE IF match(r.rest, "]")
          THEN /\ slices' = Append(slices, columns)
               /\ heap' = Append(heap, TypeRecord(Len(slices) + 1,
                                                  recordString(heap, slices, columns)))
               /\ Do(t, Leave(t, RetVal(Tail(r.rest), Len(heap) + 1, "")))
          ELSE Do(t, Leave(t, RetVal(<<>>, Nil, "type syntax")))
               /\ UNCHANGED <<heap, slices>>
    /\ UNCHANGED <<evVars, pureVars, rdVars, utilVars>>
    /\ UNCHANGED <<typeMap, typeMapMutex, call, ncalls, issued, inserted, discarded>>

\* ------------------------------------------------------- LookupTypeRecord

LookupTypeRecord_RLock(t) ==
    /\ at(t, "ltr_rlock")
    /\ RLock(t)
    /\ Do(t, Cont(t, [top(t) EXCEPT !.pc = "ltr_read"]))
    /\ UNCHANGED <<evVars, pureVars, rdVars, utilVars>>
    /\ UNCHANGED <<heap, slices, typeMap, call, ncalls, issued, inserted, discarded>>

LookupTypeRecord_Read(t) ==
    /\ at(t, "ltr_read")
    /\ Do(t, Cont(t, [MapRead(top(t), top(t).in) EXCEPT !.pc = "ltr_runlock"]))
    /\ UNCHANGED <<evVars, pureVars, rdVars, utilVars>>
    /\ UNCHANGED <<heap, slices, typeMap, typeMapMutex, call, ncalls, issued,
                   inserted, discarded>>

LookupTypeRecord_RUnlock(t) ==
    /\ at(t, "ltr_runlock")
    /\ RUnlock(t)
    /\ Do(t, IF top(t).ok THEN Leave(t, RetVal(<<>>, top(t).t, ""))
             ELSE Cont(t, [top(t) EXCEPT !.pc = "ltr_lock"]))
    /\ UNCHANGED <<evVars, pureVars, rdVars, utilVars>>
    /\ UNCHANGED <<heap, slices, typeMap, call, ncalls, issued, inserted, discarded>>

LookupTypeRecord_Lock(t) ==
    /\ at(t, "ltr_lock")
    /\ Lock(t)
    /\ Do(t, Cont(t, [top(t) EXCEPT !.pc = "ltr_access"]))
    /\ UNCHANGED <<evVars, pureVars, rdVars, utilVars>>
    /\ UNCHANGED <<heap, slices, typeMap, call, ncalls, issued, inserted, discarded>>

\* Faulty variant: the record keeps the caller's slice.
PrivateCopy_shared(sl, id) == [slices |-> sl, id |-> id]

\* private := make([]Column, len(columns)); copy: [slices, id] of the copy.
PrivateCopy(sl, id) == [slices |-> Append(sl, sl[id]), id |-> Len(sl) + 1]

\* Faulty variant: no second lookup under the exclusive lock.
LookupTypeRecord_Access_noRecheck(t) ==
    /\ at(t, "ltr_access")
    /\ LET f == top(t)
           s == f.in
           private == [slices |-> Append(slices, slices[f.slice]), id |-> Len(slices) + 1]
       IN /\ slices' = private.slices
          /\ heap' = Append(heap, TypeRecord(private.id, s))
          /\ typeMap' = [k \in DOMAIN typeMap \cup {s} |->
                            IF k = s THEN Len(heap) + 1 ELSE typeMap[k]]
          /\ inserted' = inserted \cup {[key |-> s, ptr |-> Len(heap) + 1]}
          /\ Do(t, Cont(t, [f EXCEPT !.pc = "ltr_unlock", !.t = Len(heap) + 1]))
    /\ UNCHANGED <<evVars, pureVars, rdVars, utilVars>>
    /\ UNCHANGED <<typeMapMutex, call, ncalls, issued, discarded>>

\* Faulty variant: the new record is returned but never stored in the map.
LookupTypeRecord_Access_noStore(t) ==
    /\ at(t, "ltr_access")
    /\ LET f == top(t)
           s == f.in
           private == [slices |-> Append(slices, slices[f.slice]), id |-> Len(slices) + 1]
       IN IF s \in DOMAIN typeMap
          THEN /\ Do(t, Cont(t, [f EXCEPT !.pc = "ltr_unlock", !.t = typeMap[s]]))
               /\ UNCHANGED <<heap, slices>>
          ELSE /\ slices' = private.slices
               /\ heap' = Append(heap, TypeRecord(private.id, s))
               /\ Do(t, Cont(t, [f EXCEPT !.pc = "ltr_unlock", !.t = Len(heap) + 1]))
    /\ UNCHANGED <<evVars, pureVars, rdVars, utilVars>>
    /\ UNCHANGED <<typeMap, inserted, typeMapMutex, call, ncalls, issued, discarded>>

\* The exclusive section of LookupTypeRecord.
LookupTypeRecord_Access(t) ==
    /\ at(t, "ltr_access")
    /\ LET f == top(t)
           s == f.in
           private == PrivateCopy(slices, f.slice)
       IN IF s \in DOMAIN typeMap
          THEN /\ Do(t, Cont(t, [f EXCEPT !.pc = "ltr_unlock", !.t = typeMap[s]]))
               /\ UNCHANGED <<heap, slices, typeMap, inserted>>
          ELSE /\ slices' = private.slices
               /\ heap' = Append(heap, TypeRecord(private.id, s))
               /\ typeMap' = typeMap @@ (s :> Len(heap) + 1)
               /\ inserted' = inserted \cup {[key |-> s, ptr |-> Len(heap) + 1]}
               /\ Do(t, Cont(t, [f EXCEPT !.pc = "ltr_unlock", !.t = Len(heap) + 1]))
    /\ UNCHANGED <<evVars, pureVars, rdVars, utilVars>>
    /\ UNCHANGED <<typeMapMutex, call, ncalls, issued, discarded>>

LookupTypeRecord_Unlock(t) ==
    /\ at(t, "ltr_unlock")
    /\ Unlock(t)
    /\ Do(t, Leave(t, RetVal(<<>>, top(t).t, "")))
    /\ UNCHANGED <<evVars, pureVars, rdVars, utilVars>>
    /\ UNCHANGED <<heap, slices, typeMap, call, ncalls, issued, inserted, discarded>>

\* ------------------------------------------------------------------- Next

Next ==
    \E t \in Threads :
        \/ CallLookupType(t)
        \/ CallLookupVectorType(t)
        \/ CallLookupTypeRecord(t)
        \/ Return(t)
        \/ MutateColumns(t)
        \/ addType_Lock(t)
        \/ addType_Access(t)
        \/ addType_Unlock(t)
        \/ parseType_RLock1(t)
        \/ parseType_Read1(t)
        \/ parseType_RUnlock1(t)
        \/ parseType_RLock2(t)
        \/ parseType_Read2(t)
        \/ parseType_RUnlock2(t)
        \/ parseType_BodyRet(t)
        \/ parseType_AddRet(t)
        \/ parseSetTypeBody_Start(t)
        \/ parseSetTypeBody_Ret(t)
        \/ parseVectorTypeBody_Start(t)
        \/ parseVectorTypeBody_Ret(t)
        \/ parseRecordTypeBody_Start(t)
        \/ parseRecordTypeBody_Ret(t)
        \/ LookupTypeRecord_RLock(t)
        \/ LookupTypeRecord_Read(t)
        \/ LookupTypeRecord_RUnlock(t)
        \/ LookupTypeRecord_Lock(t)
        \/ LookupTypeRecord_Access(t)
        \/ LookupTypeRecord_Unlock(t)

Spec == Init /\ [][Next]_vars

\* The steps a goroutine takes by itself once a lookup has been called: every
\* statement of the call up to its return.  Issuing a new call and mutating a
\* returned slice are the caller's choices and carry no fairness.
Running(t) ==
    \/ addType_Lock(t) \/ addType_Access(t) \/ addType_Unlock(t)
    \/ parseType_RLock1(t) \/ parseType_Read1(t) \/ parseType_RUnlock1(t)
    \/ parseType_RLock2(t) \/ parseType_Read2(t) \/ parseType_RUnlock2(t)
    \/ parseType_BodyRet(t) \/ parseType_AddRet(t)
    \/ parseSetTypeBody_Start(t) \/ parseSetTypeBody_Ret(t)
    \/ parseVectorTypeBody_Start(t) \/ parseVectorTypeBody_Ret(t)
    \/ parseRecordTypeBody_Start(t) \/ parseRecordTypeBody_Ret(t)
    \/ LookupTypeRecord_RLock(t) \/ LookupTypeRecord_Read(t)
    \/ LookupTypeRecord_RUnlock(t) \/ LookupTypeRecord_Lock(t)
    \/ LookupTypeRecord_Access(t) \/ LookupTypeRecord_Unlock(t)

\* The Go scheduler runs every runnable goroutine eventually, and a goroutine
\* blocked in Lock or RLock is woken once the mutex is free: weak fairness of
\* each goroutine's own steps.
SpecFair == Init /\ [][Next]_vars /\ \A t \in Threads : WF_vars(Running(t))

\* ====================================================================
\* The field-path evaluator
\* ====================================================================

\* ------------------------------------------------- zcode: bytes and tags

\* zcode.Bytes: nil (an unset value) is distinct from the empty body.
NilBytes == [isnil |-> TRUE, b |-> <<>>]

Bytes(b) == [isnil |-> FALSE, b |-> b]

Value(typ, body) == [Type |-> typ, Body |-> body]

\* zng.Value{}
NoValue == Value(Nil, NilBytes)

RECURSIVE AppendUvarint(_)
\* Base-128, little-endian, bit 7 set on every byte but the last.
AppendUvarint(n) ==
    IF n < 128 THEN <<n>> ELSE <<128 + (n % 128)>> \o AppendUvarint(n \div 128)

RECURSIVE Uvarint(_, _, _)
\* Decodes the uvarint that starts at b[i]: [val, last], last being the index of
\* its final byte, or 0 when the input ends inside it.
Uvarint(b, i, mult) ==
    IF i > Len(b) THEN [val |-> 0, last |-> 0]
    ELSE IF b[i] < 128 THEN [val |-> b[i] * mult, last |-> i]
    ELSE LET r == Uvarint(b, i + 1, mult * 128) IN
         IF r.last = 0 THEN r ELSE [val |-> (b[i] - 128) * mult + r.val, last |-> r.last]

\* The abstract values from which bodies are encoded.
VUnsetPrim == [k |-> "unsetprim", b |-> <<>>, elems |-> <<>>]
VUnsetCont == [k |-> "unsetcont", b |-> <<>>, elems |-> <<>>]
VPrim(b) == [k |-> "prim", b |-> b, elems |-> <<>>]
VCont(elems) == [k |-> "cont", b |-> <<>>, elems |-> elems]

RECURSIVE Encode(_)
RECURSIVE EncodeAll(_)

\* The body of a container: its elements' encodings, one after the other.
EncodeAll(elems) ==
    IF elems = <<>> THEN <<>> ELSE Encode(elems[1]) \o EncodeAll(Tail(elems))

\* A tagged element: tag 0 and 1 are the unset primitive and container, any
\* other tag is 2 + 2 * length + (1 for a container).
Encode(v) ==
    CASE v.k = "unsetprim" -> AppendUvarint(0)
      [] v.k = "unsetcont" -> AppendUvarint(1)
      [] v.k = "prim" -> AppendUvarint(2 + 2 * Len(v.b)) \o v.b
      [] v.k = "cont" -> AppendUvarint(2 + 2 * Len(EncodeAll(v.elems)) + 1)
                         \o EncodeAll(v.elems)

\* zcode.Iter: the bytes not yet walked.
Iter(body) == body.b

IterDone(it) == Len(it) = 0

\* Iter.Next: [body, container, err, rest]
IterNext(it) ==
    LET u == Uvarint(it, 1, 1)
        n == (u.val - 2) \div 2
        fail == [body |-> NilBytes, container |-> FALSE, err |-> "truncated", rest |-> <<>>]
    IN IF u.last = 0 THEN fail
       ELSE IF u.val \in {0, 1}
       THEN [body |-> NilBytes, container |-> u.val = 1, err |-> "",
             rest |-> SubSeq(it, u.last + 1, Len(it))]
       ELSE IF u.last + n > Len(it) THEN fail
       ELSE [body |-> Bytes(SubSeq(it, u.last + 1, u.last + n)),
             container |-> (u.val - 2) % 2 = 1, err |-> "",
             rest |-> SubSeq(it, u.last + n + 1, Len(it))]

\* ------------------------------------------------- type.go: indexing

\* InnerType: the element type of a set or vector, nil for any other type.
InnerType(typ) ==
    CASE heap[typ].kind = "set" -> heap[typ].inner
      [] heap[typ].kind = "vector" -> heap[typ].inner
      [] OTHER -> Nil

RECURSIVE VectorIndexWalk(_, _, _, _)
\* The loop of VectorIndex: [v, err]
VectorIndexWalk(it, i, idx, typ) ==
    IF IterDone(it) THEN [v |-> NoValue, err |-> "ErrIndex"]
    ELSE LET x == IterNext(it) IN
         IF x.err # "" THEN [v |-> NoValue, err |-> x.err]
         ELSE IF i = idx THEN [v |-> Value(typ, x.body), err |-> ""]
         ELSE VectorIndexWalk(x.rest, i + 1, idx, typ)

\* Faulty variant: every type with an inner type is walked, sets included.
VectorIndex_anyInner(e, idx) ==
    IF InnerType(e.Type) = Nil THEN [v |-> NoValue, err |-> "ErrNotVector"]
    ELSE IF idx < 0 THEN [v |-> NoValue, err |-> "ErrIndex"]
    ELSE VectorIndexWalk(Iter(e.Body), 0, idx, InnerType(e.Type))

\* TypedEncoding.VectorIndex (Value.ArrayIndex in fieldexpr.go): [v, err]
VectorIndex(e, idx) ==
    IF heap[e.Type].kind # "vector" THEN [v |-> NoValue, err |-> "ErrNotVector"]
    ELSE IF idx < 0 THEN [v |-> NoValue, err |-> "ErrIndex"]
    ELSE VectorIndexWalk(Iter(e.Body), 0, idx, heap[e.Type].inner)

\* ------------------------------------------ fieldexpr.go: the operations

\* Faulty variant: an index error is not told apart from other errors.
arrayIndex_apply_typeless(e, idx) ==
    LET r == VectorIndex(e, idx) IN
    IF r.err # "" THEN NoValue ELSE r.v

\* Faulty variant: an error other than ErrIndex hands the operand back.
arrayIndex_apply_keep(e, idx) ==
    LET r == VectorIndex(e, idx) IN
    IF r.err # ""
    THEN IF r.err = "ErrIndex" THEN Value(InnerType(e.Type), NilBytes) ELSE e
    ELSE r.v

\* arrayIndex.apply
arrayIndex_apply(e, idx) ==
    LET r == VectorIndex(e, idx) IN
    IF r.err # ""
    THEN IF r.err = "ErrIndex" THEN Value(InnerType(e.Type), NilBytes) ELSE NoValue
    ELSE r.v

RECURSIVE fieldReadWalk(_, _, _)
\* The inner loop of fieldRead.apply, for i := i; i <= n; i++: [ok, v]
fieldReadWalk(it, i, n) ==
    IF IterDone(it) THEN [ok |-> FALSE, v |-> NilBytes]
    ELSE LET x == IterNext(it) IN
         IF x.err # "" THEN [ok |-> FALSE, v |-> NilBytes]
         ELSE IF i = n THEN [ok |-> TRUE, v |-> x.body]
         ELSE fieldReadWalk(x.rest, i + 1, n)

Columns(typ) == slices[heap[typ].cols]

HasColumn(typ, field) == \E n \in 1..Len(Columns(typ)) : Columns(typ)[n].Name = field

\* The ordinal, counted from 0, of the first column named field.
ColumnOrdinal(typ, field) ==
    (CHOOSE n \in 1..Len(Columns(typ)) :
        /\ Columns(typ)[n].Name = field
        /\ \A m \in 1..(n - 1) : Columns(typ)[m].Name # field) - 1

\* Faulty variant: the walk stops one element short, for i := 0; i < n; i++.
fieldRead_apply_short(e, field) ==
    IF heap[e.Type].kind # "record" THEN NoValue
    ELSE IF ~HasColumn(e.Type, field) THEN NoValue
    ELSE LET n == ColumnOrdinal(e.Type, field)
             w == IF n = 0 THEN [ok |-> TRUE, v |-> NilBytes]
                  ELSE fieldReadWalk(Iter(e.Body), 0, n - 1)
         IN IF w.ok THEN Value(Columns(e.Type)[n + 1].Type, w.v) ELSE NoValue

\* Faulty variant: a field read of a value that is no record hands it back.
fieldRead_apply_passthrough(e, field) ==
    IF heap[e.Type].kind # "record" THEN e
    ELSE IF ~HasColumn(e.Type, field) THEN NoValue
    ELSE LET n == ColumnOrdinal(e.Type, field)
             w == fieldReadWalk(Iter(e.Body), 0, n)
         IN IF w.ok THEN Value(Columns(e.Type)[n + 1].Type, w.v) ELSE NoValue

\* fieldRead.apply
fieldRead_apply(e, field) ==
    IF heap[e.Type].kind # "record" THEN NoValue
    ELSE IF ~HasColumn(e.Type, field) THEN NoValue
    ELSE LET n == ColumnOrdinal(e.Type, field)
             w == fieldReadWalk(Iter(e.Body), 0, n)
         IN IF w.ok THEN Value(Columns(e.Type)[n + 1].Type, w.v) ELSE NoValue

\* Record.Value(col): the column's type with the bytes of element col of the
\* record's body, nil when the body has no such element.
RecordValue(r, col) ==
    LET w == fieldReadWalk(r.Raw, 0, col) IN
    Value(Columns(r.Type)[col + 1].Type, IF w.ok THEN w.v ELSE NilBytes)

FieldOp(field) == [kind |-> "field", field |-> field, idx |-> 0]

IndexOp(idx) == [kind |-> "index", field |-> "", idx |-> idx]

\* --------------------------------------------- the resolver's inputs

\* Compound types of the records below, registered like any other type.
TypeLL == Len(PrimNames) + 1
TypeREC == Len(PrimNames) + 2
TypeVecString == Len(PrimNames) + 3
TypeSetString == Len(PrimNames) + 4
TypeVecLL == Len(PrimNames) + 5
TypeMIX == Len(PrimNames) + 6

EvalSlices ==
    << <<Column("compass", TypeString), Column("degree", TypeDouble)>>,
       <<Column("city", TypeString), Column("lat", TypeLL), Column("long", TypeLL)>>,
       <<Column("v", TypeVecString), Column("s", TypeSetString), Column("w", TypeVecLL)>> >>

EvalObjects ==
    InitHeap \o << TypeRecord(1, <<>>), TypeRecord(2, <<>>), TypeVector(TypeString),
                   TypeSet(TypeString), TypeVector(TypeLL), TypeRecord(3, <<>>) >>

EvalHeap ==
    [p \in DOMAIN EvalObjects |->
        IF EvalObjects[p].kind = "record"
        THEN [EvalObjects[p] EXCEPT !.key = TypeStr(EvalObjects, EvalSlices, p)]
        ELSE EvalObjects[p]]

EvalTypeMap ==
    [k \in DOMAIN InitTypeMap
           \cup {TypeStr(EvalHeap, EvalSlices, p) : p \in TypeLL..TypeMIX} |->
        IF k \in DOMAIN InitTypeMap THEN InitTypeMap[k]
        ELSE CHOOSE p \in TypeLL..TypeMIX : TypeStr(EvalHeap, EvalSlices, p) = k]

\* Bodies of primitive values.
B_N == <<78>>
B_W == <<87>>
B_NYC == <<78, 89, 67>>
B_NorthPole == <<78, 80>>
B_40 == <<52, 48>>
B_74 == <<55, 52>>
B_90 == <<57, 48>>
B_a == <<97>>
B_b == <<98>>

Record(typ, elems) == [Type |-> typ, Raw |-> EncodeAll(elems)]

\* [NYC;[N;40;][W;74;]]
NYC ==
    Record(TypeREC, <<VPrim(B_NYC), VCont(<<VPrim(B_N), VPrim(B_40)>>),
                      VCont(<<VPrim(B_W), VPrim(B_74)>>)>>)

\* [NorthPole;[N;90;]-;]
NorthPole ==
    Record(TypeREC, <<VPrim(B_NorthPole), VCont(<<VPrim(B_N), VPrim(B_90)>>), VUnsetCont>>)

LLVals ==
    {VUnsetCont} \cup {VCont(<<c, d>>) : c \in {VUnsetPrim, VPrim(B_N)},
                                         d \in {VUnsetPrim, VPrim(B_40)}}

ElemVals == {VUnsetPrim, VPrim(B_a), VPrim(B_b)}

VecVals == {VUnsetCont} \cup {VCont(q) : q \in UNION {[1..n -> ElemVals] : n \in 0..MaxElems}}

\* Sets hold their elements in ascending order.
SetVals == {VUnsetCont, VCont(<<>>), VCont(<<VPrim(B_a)>>), VCont(<<VPrim(B_a), VPrim(B_b)>>)}

VecLLVals ==
    {VUnsetCont, VCont(<<>>), VCont(<<VCont(<<VPrim(B_N), VPrim(B_40)>>)>>),
     VCont(<<VCont(<<VPrim(B_N), VPrim(B_40)>>), VUnsetCont>>)}

EvalRecords ==
    {NYC, NorthPole}
    \cup {Record(TypeREC, <<VPrim(B_NYC), lat, long>>) :
             lat \in LLVals, long \in {VUnsetCont, VCont(<<VPrim(B_W), VPrim(B_74)>>)}}
    \cup {Record(TypeMIX, <<v, VCont(<<VPrim(B_a), VPrim(B_b)>>),
                            VCont(<<VCont(<<VPrim(B_N), VPrim(B_40)>>)>>)>>) : v \in VecVals}
    \cup {Record(TypeMIX, <<VCont(<<VPrim(B_a), VPrim(B_b)>>), st,
                            VCont(<<VCont(<<VPrim(B_N), VPrim(B_40)>>)>>)>>) : st \in SetVals}
    \cup {Record(TypeMIX, <<VCont(<<VPrim(B_a), VPrim(B_b)>>),
                            VCont(<<VPrim(B_a), VPrim(B_b)>>), w>>) : w \in VecLLVals}
    \* a body with fewer elements than columns, and one cut inside an element
    \cup {Record(TypeREC, <<VPrim(B_NYC)>>), [Type |-> TypeREC, Raw |-> <<8, 78>>]}

\* ------------------------------------------------------ the path AST

\* A path AST is a chain of nodes linked by their Field: the sequence holds
\* the outermost node first, and the empty sequence is the nil node.
FieldRead(field) == [node |-> "FieldRead", Fn |-> "", Param |-> <<>>, Field |-> field]

FieldCall(fn, param) == [node |-> "FieldCall", Fn |-> fn, Param |-> param, Field |-> ""]

DigitChars == <<"0", "1", "2", "3", "4", "5", "6", "7", "8", "9">>

RECURSIVE Digits(_)
Digits(n) ==
    IF n < 10 THEN <<DigitChars[n + 1]>>
    ELSE Digits(n \div 10) \o <<DigitChars[(n % 10) + 1]>>

\* The decimal numeral of i, one token for the sign and one for each digit.
Numeral(i) == IF i < 0 THEN <<"-">> \o Digits(0 - i) ELSE Digits(i)

IsDigit(c) == \E d \in 1..10 : DigitChars[d] = c

DigitVal(c) == (CHOOSE d \in 1..10 : DigitChars[d] = c) - 1

RECURSIVE ParseDigits(_, _)
ParseDigits(s, acc) ==
    IF s = <<>> THEN acc ELSE ParseDigits(Tail(s), 10 * acc + DigitVal(s[1]))

\* The digits of 1<<63, the cutoff of a 64-bit integer.
Cutoff64 ==
    <<"9", "2", "2", "3", "3", "7", "2", "0", "3", "6", "8", "5", "4", "7", "7",
      "5", "8", "0", "8">>

RECURSIVE StripZeros(_)
StripZeros(d) == IF d # <<>> /\ d[1] = "0" THEN StripZeros(Tail(d)) ELSE d

RECURSIVE DigitsLess(_, _)
\* Of two numerals of one length, the first is the smaller number.
DigitsLess(a, b) ==
    IF a = <<>> THEN FALSE
    ELSE IF a[1] # b[1] THEN DigitVal(a[1]) < DigitVal(b[1])
    ELSE DigitsLess(Tail(a), Tail(b))

\* The magnitude d does not fit: it is above 1<<63 - 1, or above 1<<63 when
\* the sign is negative.
OutOfRange(neg, d) ==
    LET z == StripZeros(d) IN
    \/ Len(z) > Len(Cutoff64)
    \/ Len(z) = Len(Cutoff64) /\ ~DigitsLess(z, Cutoff64) /\ ~(neg /\ z = Cutoff64)

\* strconv.ParseInt(s, 10, 64): [val, err].  A value of more than nine
\* digits, which 32 bits cannot hold, is given by its nine leading digits:
\* as an index it is past the end of every body, as the value itself is.
ParseInt(s) ==
    LET signed == s # <<>> /\ s[1] \in {"+", "-"}
        all == IF signed THEN Tail(s) ELSE s
        d == IF Len(StripZeros(all)) > 9 THEN SubSeq(StripZeros(all), 1, 9) ELSE all
    IN IF all = <<>> \/ \E i \in 1..Len(all) : ~IsDigit(all[i])
       THEN [val |-> 0, err |-> "invalid syntax"]
       ELSE IF OutOfRange(signed /\ s[1] = "-", all)
       THEN [val |-> 0, err |-> "value out of range"]
       ELSE [val |-> IF signed /\ s[1] = "-" THEN 0 - ParseDigits(d, 0)
                     ELSE ParseDigits(d, 0),
             err |-> ""]

\* The name a one-token string spells.
Word(s) == IF Len(s) = 1 THEN s[1] ELSE ""

IndexParams == {Numeral(i) : i \in (-1)..MaxElems} \cup {<<"x">>}

AstCalls ==
    {FieldCall("Index", p) : p \in IndexParams}
    \cup {FieldCall("RecordFieldRead", <<f>>) : f \in {"compass", "degree", "nosuch"}}
    \cup {FieldCall("Len", <<>>)}

\* Chains of at most MaxOps calls around a field read or around the nil node.
Asts(fields) ==
    {calls \o inner : calls \in UNION {[1..n -> AstCalls] : n \in 0..MaxOps},
                      inner \in {<<>>} \cup {<<FieldRead(f)>> : f \in fields}}

Path(field, ops) == [field |-> field, ops |-> ops]

\* w[0].compass, and a record whose w holds [N;40;] as its first element.
Ast_w0compass ==
    <<FieldCall("RecordFieldRead", <<"compass">>), FieldCall("Index", <<"0">>),
      FieldRead("w")>>

MixRecord ==
    Record(TypeMIX, <<VCont(<<VPrim(B_a), VPrim(B_b)>>), VCont(<<VPrim(B_a), VPrim(B_b)>>),
                      VCont(<<VCont(<<VPrim(B_N), VPrim(B_40)>>)>>)>>)

NotPrinted == <<"">>

NoCall == [p |-> 0, r |-> 0]

InitEval ==
    /\ heap = EvalHeap
    /\ slices = EvalSlices
    /\ typeMap = EvalTypeMap
    /\ typeMapMutex = [writer |-> NoThread, readers |-> {}]
    /\ stack = [t \in Threads |-> <<>>]
    /\ ret = [t \in Threads |-> NoRet]
    /\ call = [t \in Threads |-> Idle]
    /\ ncalls = 0
    /\ issued = {}
    /\ inserted = {}
    /\ discarded = {}
    /\ evRec \in EvalRecords
    /\ evAst \in Asts(ColumnNames(EvalSlices[EvalHeap[evRec.Type].cols]) \cup {"nosuch"})
    /\ evPath = Path("", <<>>)
    /\ evErr = ""
    /\ evRead = FALSE
    /\ evStr = NotPrinted
    /\ evI = 0
    /\ evE = NoValue
    /\ evPrev = NoValue
    /\ evPc = "compile"
    /\ pResolvers = <<>>
    /\ pRecords = <<>>
    /\ pCall = NoCall
    /\ pCalls = 0
    /\ pResults = <<>>
    /\ rdFormat = "zng"
    /\ rdStream = <<>>
    /\ rdPos = 0
    /\ rdTags = <<>>
    /\ rdOut = <<>>
    /\ rdErr = ""
    /\ rdPc = "idle"
    /\ UtilIdle

\* ------------------------------------------------------- CompileFieldExpr

CompileError(err) == [err |-> err, field |-> "", ops |-> <<>>]

RECURSIVE CompileLoop_append(_, _)
\* Faulty variant: each operation is appended behind those collected before.
CompileLoop_append(node, ops) ==
    IF node = <<>> THEN CompileError("filter AST unknown field op")
    ELSE LET op == node[1] IN
         IF op.node = "FieldRead" THEN [err |-> "", field |-> op.Field, ops |-> ops]
         ELSE IF op.Fn = "Index"
         THEN LET p == ParseInt(op.Param) IN
              IF p.err # "" THEN CompileError(p.err)
              ELSE CompileLoop_append(Tail(node), ops \o <<IndexOp(p.val)>>)
         ELSE IF op.Fn = "RecordFieldRead"
         THEN CompileLoop_append(Tail(node), ops \o <<FieldOp(Word(op.Param))>>)
         ELSE CompileError("unknown FieldCall")

RECURSIVE CompileLoop(_, _)
\* The loop that collapses the AST: [err, field, ops]
CompileLoop(node, ops) ==
    IF node = <<>> THEN CompileError("filter AST unknown field op")
    ELSE LET op == node[1] IN
         IF op.node = "FieldRead" THEN [err |-> "", field |-> op.Field, ops |-> ops]
         ELSE IF op.Fn = "Index"
         THEN LET p == ParseInt(op.Param) IN
              IF p.err # "" THEN CompileError(p.err)
              ELSE CompileLoop(Tail(node), <<IndexOp(p.val)>> \o ops)
         ELSE IF op.Fn = "RecordFieldRead"
         THEN CompileLoop(Tail(node), <<FieldOp(Word(op.Param))>> \o ops)
         ELSE CompileError("unknown FieldCall")

\* CompileFieldExpr(node): the resolver's field and ops, or an error.
CompileFieldExpr ==
    /\ evPc = "compile"
    /\ LET c == CompileLoop(evAst, <<>>) IN
       /\ evErr' = c.err
       /\ evPath' = Path(c.field, c.ops)
       /\ evPc' = IF c.err # "" THEN "error" ELSE "top"
    /\ UNCHANGED <<evRec, evI, evE, evPrev, evAst, evRead, evStr>>
    /\ UNCHANGED <<regVars, pureVars, rdVars, utilVars>>

\* ------------------------------------------------------ FieldExprToString

Printed(str) == [s |-> str, panic |-> FALSE]

Panic == [s |-> <<>>, panic |-> TRUE]

RECURSIVE FieldExprToString_swapped(_)
\* Faulty variant: the arguments of the Index format are exchanged.
FieldExprToString_swapped(node) ==
    IF node = <<>> THEN Panic
    ELSE IF node[1].node = "FieldRead" THEN Printed(<<node[1].Field>>)
    ELSE LET inner == FieldExprToString_swapped(Tail(node)) IN
         IF inner.panic THEN Panic
         ELSE CASE node[1].Fn = "Len" -> Printed(<<"len", "(">> \o inner.s \o <<")">>)
                [] node[1].Fn = "Index" ->
                       Printed(node[1].Param \o <<"[">> \o inner.s \o <<"]">>)
                [] node[1].Fn = "RecordFieldRead" ->
                       Printed(inner.s \o <<".">> \o node[1].Param)
                [] OTHER -> Panic

RECURSIVE FieldExprToString(_)
\* FieldExprToString(node): [s, panic]
FieldExprToString(node) ==
    IF node = <<>> THEN Panic
    ELSE IF node[1].node = "FieldRead" THEN Printed(<<node[1].Field>>)
    ELSE LET inner == FieldExprToString(Tail(node)) IN
         IF inner.panic THEN Panic
         ELSE CASE node[1].Fn = "Len" -> Printed(<<"len", "(">> \o inner.s \o <<")">>)
                [] node[1].Fn = "Index" ->
                       Printed(inner.s \o <<"[">> \o node[1].Param \o <<"]">>)
                [] node[1].Fn = "RecordFieldRead" ->
                       Printed(inner.s \o <<".">> \o node[1].Param)
                [] OTHER -> Panic

\* A caller prints the path it is about to compile.
FieldExprToString_Call ==
    /\ evPc = "compile"
    /\ LET p == FieldExprToString(evAst) IN
       /\ evStr' = p.s
       /\ evPc' = IF p.panic THEN "panic" ELSE "printed"
    /\ UNCHANGED <<evRec, evPath, evI, evE, evPrev, evAst, evErr, evRead>>
    /\ UNCHANGED <<regVars, pureVars, rdVars, utilVars>>

NextPrint == FieldExprToString_Call

SpecPrint == InitEval /\ [][NextPrint]_vars

\* --------------------------------------------------------- the resolver

\* r.Type.LUT: the ordinal of each column name.
LUT(typ) == [f \in ColumnNames(Columns(typ)) |-> ColumnOrdinal(typ, f)]

\* Where the loop over ops stands once e is the value after i operations.
AfterOp(e, i) == IF e.Type = Nil \/ i = Len(evPath.ops) THEN "done" ELSE "ops"

\* Faulty variant: the ok of the map lookup is ignored and col is then 0.
Resolve_Top_noOk ==
    /\ evPc = "top"
    /\ LET col == IF evPath.field \in DOMAIN LUT(evRec.Type)
                  THEN LUT(evRec.Type)[evPath.field] ELSE 0 IN
       /\ evE' = RecordValue(evRec, col)
       /\ evRead' = TRUE
       /\ evPc' = IF evPath.ops = <<>> THEN "done" ELSE "ops"
    /\ UNCHANGED <<evRec, evPath, evI, evPrev, evAst, evErr, evStr>>
    /\ UNCHANGED <<regVars, pureVars, rdVars, utilVars>>

\* col, ok := r.Type.LUT[field]; e := r.Value(col)
Resolve_Top ==
    /\ evPc = "top"
    /\ IF evPath.field \notin DOMAIN LUT(evRec.Type)
       THEN evE' = NoValue /\ evPc' = "done" /\ evRead' = evRead
       ELSE /\ evE' = RecordValue(evRec, LUT(evRec.Type)[evPath.field])
            /\ evRead' = TRUE
            /\ evPc' = IF evPath.ops = <<>> THEN "done" ELSE "ops"
    /\ UNCHANGED <<evRec, evPath, evI, evPrev, evAst, evErr, evStr>>
    /\ UNCHANGED <<regVars, pureVars, rdVars, utilVars>>

\* Faulty variant: the loop takes each operation off the closure's list.
Resolve_FieldRead_consume ==
    /\ evPc = "ops" /\ evPath.ops[evI + 1].kind = "field"
    /\ evPrev' = evE
    /\ evE' = fieldRead_apply(evE, evPath.ops[evI + 1].field)
    /\ evPath' = [evPath EXCEPT !.ops = Tail(@)]
    /\ evI' = evI
    /\ evPc' = IF evE'.Type = Nil \/ evPath'.ops = <<>> THEN "done" ELSE "ops"
    /\ UNCHANGED <<evRec, evAst, evErr, evRead, evStr>>
    /\ UNCHANGED <<regVars, pureVars, rdVars, utilVars>>

\* e = op.apply(e) for a fieldRead op
Resolve_FieldRead ==
    /\ evPc = "ops" /\ evPath.ops[evI + 1].kind = "field"
    /\ evPrev' = evE
    /\ evE' = fieldRead_apply(evE, evPath.ops[evI + 1].field)
    /\ evI' = evI + 1
    /\ evPc' = AfterOp(evE', evI + 1)
    /\ UNCHANGED <<evRec, evPath, evAst, evErr, evRead, evStr>>
    /\ UNCHANGED <<regVars, pureVars, rdVars, utilVars>>

\* e = op.apply(e) for an arrayIndex op
Resolve_ArrayIndex ==
    /\ evPc = "ops" /\ evPath.ops[evI + 1].kind = "index"
    /\ evPrev' = evE
    /\ evE' = arrayIndex_apply(evE, evPath.ops[evI + 1].idx)
    /\ evI' = evI + 1
    /\ evPc' = AfterOp(evE', evI + 1)
    /\ UNCHANGED <<evRec, evPath, evAst, evErr, evRead, evStr>>
    /\ UNCHANGED <<regVars, pureVars, rdVars, utilVars>>

NextEval == CompileFieldExpr \/ Resolve_Top \/ Resolve_FieldRead \/ Resolve_ArrayIndex

SpecEval == InitEval /\ [][NextEval]_vars

\* ------------------------------------------- repeated resolver calls

Ast_latcompass == <<FieldCall("RecordFieldRead", <<"compass">>), FieldRead("lat")>>

Ast_longdegree == <<FieldCall("RecordFieldRead", <<"degree">>), FieldRead("long")>>

Ast_v1 == <<FieldCall("Index", <<"1">>), FieldRead("v")>>

PureAsts == {Ast_w0compass, Ast_latcompass, Ast_longdegree, Ast_v1}

PureRecords == {NYC, NorthPole, MixRecord}

\* The field and ops of the resolver CompileFieldExpr returns for ast.
Compiled(ast) == LET c == CompileLoop(ast, <<>>) IN Path(c.field, c.ops)

Slots == 1..2

InitPure ==
    /\ heap = EvalHeap
    /\ slices = EvalSlices
    /\ typeMap = EvalTypeMap
    /\ typeMapMutex = [writer |-> NoThread, readers |-> {}]
    /\ stack = [t \in Threads |-> <<>>]
    /\ ret = [t \in Threads |-> NoRet]
    /\ call = [t \in Threads |-> Idle]
    /\ ncalls = 0
    /\ issued = {}
    /\ inserted = {}
    /\ discarded = {}
    /\ pResolvers \in [Slots -> {Compiled(a) : a \in PureAsts}]
    /\ pRecords \in [Slots -> PureRecords]
    /\ pCall = NoCall
    /\ pCalls = 0
    /\ pResults = [k \in Slots \X Slots |-> {}]
    /\ rdFormat = "zng"
    /\ rdStream = <<>>
    /\ rdPos = 0
    /\ rdTags = <<>>
    /\ rdOut = <<>>
    /\ rdErr = ""
    /\ rdPc = "idle"
    /\ UtilIdle
    /\ evRec = [Type |-> Nil, Raw |-> <<>>]
    /\ evPath = Path("", <<>>)
    /\ evAst = <<>>
    /\ evErr = ""
    /\ evRead = FALSE
    /\ evStr = NotPrinted
    /\ evI = 0
    /\ evE = NoValue
    /\ evPrev = NoValue
    /\ evPc = "idle"

\* resolver p is called on record r: the closure works on the field and ops
\* it captured and on the record it is handed.
Pure_Call(p, r) ==
    /\ evPc = "idle" /\ pCalls < MaxEvals
    /\ pCall' = [p |-> p, r |-> r]
    /\ pCalls' = pCalls + 1
    /\ evPath' = pResolvers[p]
    /\ evRec' = pRecords[r]
    /\ evI' = 0 /\ evE' = NoValue /\ evPrev' = NoValue
    /\ evPc' = "top"
    /\ UNCHANGED <<evAst, evErr, evRead, evStr, pResolvers, pRecords, pResults>>
    /\ UNCHANGED <<regVars, rdVars, utilVars>>

\* return e: the caller has the value, the closure and the record are as the
\* call left them.
Pure_Return ==
    /\ evPc = "done"
    /\ pResults' = [pResults EXCEPT ![<<pCall.p, pCall.r>>] = @ \cup {evE}]
    /\ pResolvers' = [pResolvers EXCEPT ![pCall.p] = evPath]
    /\ pRecords' = [pRecords EXCEPT ![pCall.r] = evRec]
    /\ pCall' = NoCall
    /\ evPc' = "idle"
    /\ UNCHANGED <<evRec, evPath, evI, evE, evPrev, evAst, evErr, evRead, evStr, pCalls>>
    /\ UNCHANGED <<regVars, rdVars, utilVars>>

NextPure ==
    \/ \E p \in Slots, r \in Slots : Pure_Call(p, r)
    \/ Pure_Return
    \/ Resolve_Top
    \/ Resolve_FieldRead
    \/ Resolve_ArrayIndex

SpecPure == InitPure /\ [][NextPure]_vars

\* ====================================================================
\* The stream readers
\* ====================================================================

\* The thread the reader runs on.
Reader == "t1"

\* ------------------------------------------------------ lines of a stream

TypedefLine(tag, type) == [kind |-> "typedef", tag |-> tag, text |-> type]

ValueLine(tag, body) == [kind |-> "value", tag |-> tag, text |-> body]

\* record[foo:record[foo:string,<second>:string]]
NestedTypeText(second) ==
    <<"record", "[", "foo", ":", "record", "[", "foo", ":", "string", ",",
      second, ":", "string", "]", "]">>

\* record[a:string]
TypeText_a == <<"record", "[", "a", ":", "string", "]">>

\* record[a:string,<second>:string]
FlatTypeText(second) ==
    <<"record", "[", "a", ":", "string", ",", second, ":", "string", "]">>

ZngLines ==
    { TypedefLine(0, NestedTypeText("bar")),
      ValueLine(0, <<"[", "[", "1", ";", "2", ";", "]", "]">>),
      TypedefLine(1, NestedTypeText("foo")),
      TypedefLine(0, TypeText_a),
      TypedefLine(0, FlatTypeText("b")),
      TypedefLine(1, FlatTypeText("a")),
      ValueLine(0, <<"[", "1", ";", "]">>),
      ValueLine(0, <<"[", "1", ";", "2", ";", "]">>),
      ValueLine(0, <<"[", "[", "1", ";", "]", "]">>),
      ValueLine(0, <<"[", "-", ";", "]">>) }

\* A zjson column: a primitive type by name, or a record by its columns.
JCol(name, prim, cols) == [name |-> name, prim |-> prim, cols |-> cols]

JStr(str) == [k |-> "str", s |-> str, elems |-> <<>>]

JArr(elems) == [k |-> "arr", s |-> "", elems |-> elems]

JNull == [k |-> "null", s |-> "", elems |-> <<>>]

\* {"id": id, "type": [columns], "values": [values]}; type is <<>> when absent
ZjsonLine(id, type, values) == [id |-> id, type |-> type, values |-> values]

JType_a == <<JCol("a", "string", <<>>)>>

JType_ab == <<JCol("a", "", <<JCol("b", "string", <<>>)>>)>>

ZjsonLines ==
    { ZjsonLine(0, JType_a, JArr(<<JArr(<<JStr("1")>>)>>)),
      ZjsonLine(0, JType_a, JArr(<<JStr("1")>>)),
      ZjsonLine(0, JType_ab, JArr(<<JStr("1")>>)),
      ZjsonLine(0, JType_ab, JArr(<<JArr(<<JStr("1")>>)>>)),
      ZjsonLine(0, <<>>, JArr(<<JNull>>)) }

\* set[string]
SetTypeText == <<"set", "[", "string", "]">>

\* The lines of the streams that carry sets.
SetLines ==
    { TypedefLine(0, SetTypeText),
      ValueLine(0, <<"[", "hello", ";", "world", ";", "]">>),
      ValueLine(0, <<"[", "world", ";", "hello", ";", "]">>),
      ValueLine(0, <<"[", "hello", ";", "hello", ";", "]">>),
      ValueLine(0, <<"[", "hello", ";", "z", ";", "]">>),
      ValueLine(0, <<"[", "z", ";", "hello", ";", "]">>) }

RECURSIVE ZjsonColumnsText(_)
\* The columns of a zjson type as the text of a record type's columns.
ZjsonColumnsText(cols) ==
    IF cols = <<>> THEN <<>>
    ELSE <<cols[1].name, ":">>
         \o (IF cols[1].prim # "" THEN <<cols[1].prim>>
             ELSE <<"record", "[">> \o ZjsonColumnsText(cols[1].cols) \o <<"]">>)
         \o (IF Len(cols) > 1 THEN <<",">> ELSE <<>>)
         \o ZjsonColumnsText(Tail(cols))

ZjsonTypeText(cols) == <<"record", "[">> \o ZjsonColumnsText(cols) \o <<"]">>

Streams(lines) == UNION {[1..n -> lines] : n \in 1..MaxLines}

\* ---------------------------------------------------- decoding of values

\* The bytes of a primitive terminal.
TextBytes(tok) ==
    CASE tok = "1" -> <<49>>
      [] tok = "2" -> <<50>>
      [] tok = "z" -> <<122>>
      [] tok = "hello" -> <<104, 101, 108, 108, 111>>
      [] tok = "world" -> <<119, 111, 114, 108, 100>>
      [] OTHER -> <<63>>

IsContainerType(typ) == heap[typ].kind # "prim"

\* The type of element k, counted from 0, of a container of type typ.
ChildType(typ, k) ==
    IF heap[typ].kind = "record" THEN Columns(typ)[k + 1].Type ELSE heap[typ].inner

Parsed(v, rest) == [err |-> "", v |-> v, rest |-> rest]

ParseError(err) == [err |-> err, v |-> VUnsetPrim, rest |-> <<>>]

Unset(typ) == IF IsContainerType(typ) THEN VUnsetCont ELSE VUnsetPrim

RECURSIVE ParseContainer(_, _)
RECURSIVE ParseElems(_, _, _, _)
RECURSIVE ParseField(_, _)

\* Faulty variant: a terminal is taken for a primitive whatever the type.
ParseField_untyped(typ, toks) ==
    IF toks = <<>> THEN ParseError("ErrUnterminated")
    ELSE IF toks[1] = "[" THEN ParseContainer(typ, toks)
    ELSE IF Len(toks) < 2 \/ toks[2] # ";" THEN ParseError("ErrUnterminated")
    ELSE IF toks[1] = "-" THEN Parsed(Unset(typ), SubSeq(toks, 3, Len(toks)))
    ELSE Parsed(VPrim(TextBytes(toks[1])), SubSeq(toks, 3, Len(toks)))

\* A value in text form, parsed as a value of type typ: [err, v, rest]
ParseField(typ, toks) ==
    IF toks = <<>> THEN ParseError("ErrUnterminated")
    ELSE IF toks[1] = "[" THEN ParseContainer(typ, toks)
    ELSE IF Len(toks) < 2 \/ toks[2] # ";" THEN ParseError("ErrUnterminated")
    ELSE IF toks[1] = "-" THEN Parsed(Unset(typ), SubSeq(toks, 3, Len(toks)))
    ELSE IF IsContainerType(typ) THEN ParseError("ErrNotContainer")
    ELSE Parsed(VPrim(TextBytes(toks[1])), SubSeq(toks, 3, Len(toks)))

\* Faulty variant: the bracket is taken for a container whatever the type.
ParseContainer_untyped(typ, toks) ==
    IF ~IsContainerType(typ) THEN Parsed(VUnsetPrim, <<>>)
    ELSE ParseElems(typ, 0, Tail(toks), <<>>)

ParseContainer(typ, toks) ==
    IF ~IsContainerType(typ) THEN ParseError("ErrNotPrimitive")
    ELSE ParseElems(typ, 0, Tail(toks), <<>>)

\* Faulty variant: elements beyond the last column are dropped.
ParseElems_dropExtra(typ, k, toks, acc) ==
    IF toks = <<>> THEN ParseError("ErrUnterminated")
    ELSE IF toks[1] = "]" THEN Parsed(VCont(acc), Tail(toks))
    ELSE IF heap[typ].kind = "record" /\ k >= Len(Columns(typ))
    THEN Parsed(VCont(acc), <<>>)
    ELSE LET f == ParseField(ChildType(typ, k), toks) IN
         IF f.err # "" THEN f
         ELSE ParseElems(typ, k + 1, f.rest, Append(acc, f.v))

ParseElems(typ, k, toks, acc) ==
    IF toks = <<>> THEN ParseError("ErrUnterminated")
    ELSE IF toks[1] = "]" THEN Parsed(VCont(acc), Tail(toks))
    ELSE IF heap[typ].kind = "record" /\ k >= Len(Columns(typ))
    THEN ParseError("ErrExtraField")
    ELSE LET f == ParseField(ChildType(typ, k), toks) IN
         IF f.err # "" THEN f
         ELSE ParseElems(typ, k + 1, f.rest, Append(acc, f.v))

RECURSIVE DecodeJSON(_, _)
RECURSIVE DecodeJSONElems(_, _, _, _)

\* A zjson value decoded as a value of type typ: [err, v, rest]
DecodeJSON(typ, j) ==
    IF j.k = "null" THEN Parsed(Unset(typ), <<>>)
    ELSE IF j.k = "arr"
    THEN IF ~IsContainerType(typ) THEN ParseError("ErrNotPrimitive")
         ELSE DecodeJSONElems(typ, 0, j.elems, <<>>)
    ELSE IF IsContainerType(typ) THEN ParseError("ErrNotContainer")
    ELSE Parsed(VPrim(TextBytes(j.s)), <<>>)

DecodeJSONElems(typ, k, elems, acc) ==
    IF elems = <<>> THEN Parsed(VCont(acc), <<>>)
    ELSE IF heap[typ].kind = "record" /\ k >= Len(Columns(typ))
    THEN ParseError("ErrExtraField")
    ELSE LET f == DecodeJSON(ChildType(typ, k), elems[1]) IN
         IF f.err # "" THEN f
         ELSE DecodeJSONElems(typ, k + 1, Tail(elems), Append(acc, f.v))

RECURSIVE ElementBodies(_)
\* The bodies of the well-formed tagged elements a body starts with.
ElementBodies(it) ==
    IF IterDone(it) THEN <<>>
    ELSE LET x == IterNext(it) IN
         IF x.err # "" THEN <<>> ELSE <<x.body>> \o ElementBodies(x.rest)

RECURSIVE ElementEncodings(_)
\* The complete encodings, tag and body, of the elements of a body.
ElementEncodings(it) ==
    IF IterDone(it) THEN <<>>
    ELSE LET x == IterNext(it) IN
         IF x.err # "" THEN <<>>
         ELSE <<SubSeq(it, 1, Len(it) - Len(x.rest))>> \o ElementEncodings(x.rest)

RECURSIVE LexLess(_, _)
\* a comes before b in the lexicographic order of byte sequences.
LexLess(a, b) ==
    IF b = <<>> THEN FALSE
    ELSE IF a = <<>> THEN TRUE
    ELSE IF a[1] # b[1] THEN a[1] < b[1]
    ELSE LexLess(Tail(a), Tail(b))

\* Faulty variant: the bodies of the elements are compared, without tags.
NormalizedSet_bodies(it) ==
    LET e == ElementBodies(it) IN
    \A i \in 1..(Len(e) - 1) : LexLess(e[i].b, e[i + 1].b)

\* The elements of a set's body are in strictly ascending order.
NormalizedSet(it) ==
    LET e == ElementEncodings(it) IN
    \A i \in 1..(Len(e) - 1) : LexLess(e[i], e[i + 1])

RECURSIVE TypeCheck(_, _)
RECURSIVE TypeCheckFrom(_, _, _)

\* Faulty variant: the number of elements of a record is not compared.
TypeCheck_noCount(typ, v) ==
    IF v.k # "cont" THEN "" ELSE TypeCheckFrom(typ, v, 0)

\* The check of a parsed value against its type: the error, "" for none.
TypeCheck(typ, v) ==
    IF v.k # "cont" THEN ""
    ELSE IF heap[typ].kind = "record" /\ Len(v.elems) < Len(Columns(typ))
    THEN "ErrMissingField"
    ELSE IF heap[typ].kind = "record" /\ Len(v.elems) > Len(Columns(typ))
    THEN "ErrExtraField"
    ELSE IF heap[typ].kind = "set" /\ ~NormalizedSet(EncodeAll(v.elems))
    THEN "SetNotSorted"
    ELSE TypeCheckFrom(typ, v, 0)

\* The first error among the elements k, k + 1, ... of v.
TypeCheckFrom(typ, v, k) ==
    IF k >= Len(v.elems) THEN ""
    ELSE IF heap[typ].kind = "record" /\ k >= Len(Columns(typ)) THEN ""
    ELSE LET e == TypeCheck(ChildType(typ, k), v.elems[k + 1]) IN
         IF e # "" THEN e ELSE TypeCheckFrom(typ, v, k + 1)

\* ------------------------------------------------------ the binary form

\* Type IDs 0 through 18 are the primitive types; typedefs start at 23.
NumPrimitiveIDs == 19

FirstTypeID == 23

IDInt64 == 6

IDString == 9

\* A typedef: code 0 record, 1 array, 2 set, 3 union, 4 alias.
BTypedef(code, names, ids) ==
    [kind |-> "typedef", code |-> code, names |-> names, ids |-> ids,
     tag |-> 0, body |-> <<>>]

\* Any other control message: code 5 is the ordering hint.
BControl(code) ==
    [kind |-> "control", code |-> code, names |-> <<>>, ids |-> <<>>,
     tag |-> 0, body |-> <<>>]

\* A value message: the type ID and the body.
BValue(id, body) ==
    [kind |-> "value", code |-> 0, names |-> <<>>, ids |-> <<>>,
     tag |-> id, body |-> body]

Hello == VPrim(TextBytes("hello"))

World == VPrim(TextBytes("world"))

BzngMessages ==
    { BTypedef(2, <<>>, <<IDString>>),
      BTypedef(0, <<"a">>, <<FirstTypeID>>),
      BTypedef(4, <<"name">>, <<FirstTypeID>>),
      BTypedef(1, <<>>, <<FirstTypeID + 1>>),
      BTypedef(3, <<>>, <<IDString, IDInt64>>),
      BControl(5),
      BValue(IDString, TextBytes("hello")),
      BValue(FirstTypeID, EncodeAll(<<Hello, World>>)),
      BValue(FirstTypeID, EncodeAll(<<World, Hello>>)),
      BValue(FirstTypeID + 1, EncodeAll(<<VCont(<<World, Hello>>)>>)),
      BValue(FirstTypeID + 1, EncodeAll(<<Hello, VPrim(TextBytes("z"))>>)),
      BValue(FirstTypeID - 3, TextBytes("hello")) }

\* The type ID names a primitive type or a type of an earlier typedef.
BinKnown(tags, id) == id < NumPrimitiveIDs \/ id \in DOMAIN tags

\* Faulty variant: every message before the typedef takes a type ID.
NextTypeID_perMessage(tags) == FirstTypeID + rdPos

\* The type ID the next typedef is bound to.
NextTypeID(tags) == FirstTypeID + Cardinality(DOMAIN tags)

RECURSIVE BinCheck(_, _, _)
RECURSIVE BinCheckElems(_, _, _, _)

\* The check of a body against the type of an ID: the error, "" for none.
BinCheck(tags, id, body) ==
    IF id < NumPrimitiveIDs \/ body.isnil THEN ""
    ELSE LET d == tags[id] IN
         CASE d.code = 4 -> BinCheck(tags, d.ids[1], body)
           [] d.code = 2 -> IF NormalizedSet(body.b) THEN "" ELSE "SetNotSorted"
           [] d.code \in {0, 1} -> BinCheckElems(tags, d, Iter(body), 0)
           [] OTHER -> ""

\* The first error among the elements k, k + 1, ... of a record or an array.
BinCheckElems(tags, d, it, k) ==
    IF IterDone(it)
    THEN IF d.code = 0 /\ k < Len(d.ids) THEN "ErrMissingField" ELSE ""
    ELSE LET x == IterNext(it) IN
         IF x.err # "" THEN x.err
         ELSE IF d.code = 0 /\ k >= Len(d.ids) THEN "ErrExtraField"
         ELSE LET e == BinCheck(tags, IF d.code = 0 THEN d.ids[k + 1] ELSE d.ids[1],
                                x.body)
              IN IF e # "" THEN e ELSE BinCheckElems(tags, d, x.rest, k + 1)

\* --------------------------------------------------------- the readers

InitRead ==
    /\ heap = InitHeap
    /\ slices = <<>>
    /\ typeMap = InitTypeMap
    /\ typeMapMutex = [writer |-> NoThread, readers |-> {}]
    /\ stack = [t \in Threads |-> <<>>]
    /\ ret = [t \in Threads |-> NoRet]
    /\ call = [t \in Threads |-> Idle]
    /\ ncalls = 0
    /\ issued = {}
    /\ inserted = {}
    /\ discarded = {}
    /\ evRec = [Type |-> Nil, Raw |-> <<>>]
    /\ evPath = Path("", <<>>)
    /\ evAst = <<>>
    /\ evErr = ""
    /\ evRead = FALSE
    /\ evStr = NotPrinted
    /\ evI = 0
    /\ evE = NoValue
    /\ evPrev = NoValue
    /\ evPc = "idle"
    /\ pResolvers = <<>>
    /\ pRecords = <<>>
    /\ pCall = NoCall
    /\ pCalls = 0
    /\ pResults = <<>>
    /\ \/ rdFormat = "zng" /\ rdStream \in Streams(ZngLines) \cup Streams(SetLines)
       \/ rdFormat = "zjson" /\ rdStream \in Streams(ZjsonLines)
       \/ rdFormat = "bzng" /\ rdStream \in Streams(BzngMessages)
    /\ rdPos = 0
    /\ rdTags = <<>>
    /\ rdOut = <<>>
    /\ rdErr = ""
    /\ rdPc = "line"
    /\ UtilIdle

Line == rdStream[rdPos + 1]

\* The tag of the current line: tag of a zng line, id of a zjson line.
LineTag == IF rdFormat = "zjson" THEN Line.id ELSE Line.tag

\* The reader calls LookupType(in).
ReaderLookupType(in) ==
    /\ stack' = [stack EXCEPT ![Reader] = <<Frame("pt_rlock1", in, Nil)>>]
    /\ call' = [call EXCEPT ![Reader] = [op |-> "LookupType", slice |-> 0,
                                         expect |-> Nil]]
    /\ ret' = [ret EXCEPT ![Reader] = NoRet]
    /\ ncalls' = ncalls + 1
    /\ UNCHANGED <<heap, slices, typeMap, typeMapMutex, issued, inserted, discarded>>

\* The value v is the next record of the stream, or err ends the stream.
Deliver(typ, p) ==
    LET err == IF p.err # "" THEN p.err
               ELSE IF p.rest # <<>> THEN "ErrUnterminated"
               ELSE TypeCheck(typ, p.v)
    IN IF err # ""
       THEN rdErr' = err /\ rdPc' = "failed" /\ UNCHANGED <<rdOut, rdPos>>
       ELSE /\ rdOut' = Append(rdOut, Record(typ, p.v.elems))
            /\ rdPos' = rdPos + 1
            /\ rdPc' = "line"
            /\ rdErr' = rdErr

\* #tag:type
Read_Typedef ==
    /\ rdPc = "line" /\ rdFormat = "zng" /\ rdPos < Len(rdStream)
    /\ Line.kind = "typedef"
    /\ ReaderLookupType(Line.text)
    /\ rdPc' = "lookup"
    /\ UNCHANGED <<rdFormat, rdStream, rdPos, rdTags, rdOut, rdErr>>
    /\ UNCHANGED <<evVars, pureVars, utilVars>>

\* LookupType has returned: the tag is bound, or the stream ends in error.
Read_LookupRet ==
    /\ rdPc = "lookup" /\ stack[Reader] = <<>>
    /\ call' = [call EXCEPT ![Reader] = Idle]
    /\ IF ret[Reader].err # ""
       THEN /\ rdErr' = ret[Reader].err /\ rdPc' = "failed"
            /\ UNCHANGED <<rdTags, rdPos, issued>>
       ELSE /\ rdTags' = [t \in DOMAIN rdTags \cup {LineTag} |->
                             IF t = LineTag THEN ret[Reader].typ ELSE rdTags[t]]
            /\ issued' = issued \cup {[key |-> String(ret[Reader].typ),
                                       ptr |-> ret[Reader].typ]}
            /\ rdPos' = IF rdFormat = "zng" THEN rdPos + 1 ELSE rdPos
            /\ rdPc' = IF rdFormat = "zng" THEN "line" ELSE "values"
            /\ rdErr' = rdErr
    /\ UNCHANGED <<rdFormat, rdStream, rdOut>>
    /\ UNCHANGED <<heap, slices, typeMap, typeMapMutex, stack, ret, ncalls,
                   inserted, discarded>>
    /\ UNCHANGED <<evVars, pureVars, utilVars>>

\* Faulty variant: a value of a tag no typedef has bound is passed over.
Read_Value_skip ==
    /\ rdPc = "line" /\ rdFormat = "zng" /\ rdPos < Len(rdStream)
    /\ Line.kind = "value"
    /\ IF Line.tag \notin DOMAIN rdTags
       THEN rdPos' = rdPos + 1 /\ UNCHANGED <<rdOut, rdErr, rdPc>>
       ELSE Deliver(rdTags[Line.tag], ParseField(rdTags[Line.tag], Line.text))
    /\ UNCHANGED <<rdFormat, rdStream, rdTags>>
    /\ UNCHANGED <<regVars, evVars, pureVars, utilVars>>

\* tag:value
Read_Value ==
    /\ rdPc = "line" /\ rdFormat = "zng" /\ rdPos < Len(rdStream)
    /\ Line.kind = "value"
    /\ IF Line.tag \notin DOMAIN rdTags
       THEN rdErr' = "ErrDescriptorNotFound" /\ rdPc' = "failed"
            /\ UNCHANGED <<rdOut, rdPos>>
       ELSE Deliver(rdTags[Line.tag], ParseField(rdTags[Line.tag], Line.text))
    /\ UNCHANGED <<rdFormat, rdStream, rdTags>>
    /\ UNCHANGED <<regVars, evVars, pureVars, utilVars>>

\* A zjson line: its type, when it has one, is looked up first.
Read_ZjsonLine ==
    /\ rdPc = "line" /\ rdFormat = "zjson" /\ rdPos < Len(rdStream)
    /\ IF Line.type # <<>>
       THEN ReaderLookupType(ZjsonTypeText(Line.type)) /\ rdPc' = "lookup"
       ELSE rdPc' = "values" /\ UNCHANGED regVars
    /\ UNCHANGED <<rdFormat, rdStream, rdPos, rdTags, rdOut, rdErr>>
    /\ UNCHANGED <<evVars, pureVars, utilVars>>

\* The values of a zjson line.
Read_ZjsonValues ==
    /\ rdPc = "values"
    /\ IF Line.id \notin DOMAIN rdTags
       THEN rdErr' = "ErrDescriptorNotFound" /\ rdPc' = "failed"
            /\ UNCHANGED <<rdOut, rdPos>>
       ELSE Deliver(rdTags[Line.id], DecodeJSON(rdTags[Line.id], Line.values))
    /\ UNCHANGED <<rdFormat, rdStream, rdTags>>
    /\ UNCHANGED <<regVars, evVars, pureVars, utilVars>>

\* The end of the stream.
Read_EOS ==
    /\ rdPc = "line" /\ rdPos = Len(rdStream)
    /\ rdPc' = "eos"
    /\ UNCHANGED <<rdFormat, rdStream, rdPos, rdTags, rdOut, rdErr>>
    /\ UNCHANGED <<regVars, evVars, pureVars, utilVars>>

\* A typedef message: the next type ID is bound to the type it encodes.
Read_BzngTypedef ==
    /\ rdPc = "line" /\ rdFormat = "bzng" /\ rdPos < Len(rdStream)
    /\ Line.kind = "typedef"
    /\ IF \E i \in 1..Len(Line.ids) : ~BinKnown(rdTags, Line.ids[i])
       THEN rdErr' = "ErrDescriptorNotFound" /\ rdPc' = "failed"
            /\ UNCHANGED <<rdTags, rdPos>>
       ELSE IF Line.code = 2 /\ Line.ids[1] >= NumPrimitiveIDs
       THEN rdErr' = "InvalidType" /\ rdPc' = "failed"
            /\ UNCHANGED <<rdTags, rdPos>>
       ELSE /\ rdTags' = [t \in DOMAIN rdTags \cup {NextTypeID(rdTags)} |->
                             IF t \in DOMAIN rdTags THEN rdTags[t] ELSE Line]
            /\ rdPos' = rdPos + 1
            /\ UNCHANGED <<rdErr, rdPc>>
    /\ UNCHANGED <<rdFormat, rdStream, rdOut>>
    /\ UNCHANGED <<regVars, evVars, pureVars, utilVars>>

\* A control message that is no typedef binds nothing.
Read_BzngControl ==
    /\ rdPc = "line" /\ rdFormat = "bzng" /\ rdPos < Len(rdStream)
    /\ Line.kind = "control"
    /\ rdPos' = rdPos + 1
    /\ UNCHANGED <<rdFormat, rdStream, rdTags, rdOut, rdErr, rdPc>>
    /\ UNCHANGED <<regVars, evVars, pureVars, utilVars>>

\* A value message.
Read_BzngValue ==
    /\ rdPc = "line" /\ rdFormat = "bzng" /\ rdPos < Len(rdStream)
    /\ Line.kind = "value"
    /\ LET err == IF ~BinKnown(rdTags, Line.tag) THEN "ErrDescriptorNotFound"
                  ELSE BinCheck(rdTags, Line.tag, Bytes(Line.body))
       IN IF err # ""
          THEN rdErr' = err /\ rdPc' = "failed" /\ UNCHANGED <<rdOut, rdPos>>
          ELSE /\ rdOut' = Append(rdOut, [Type |-> Line.tag, Raw |-> Line.body])
               /\ rdPos' = rdPos + 1
               /\ UNCHANGED <<rdErr, rdPc>>
    /\ UNCHANGED <<rdFormat, rdStream, rdTags>>
    /\ UNCHANGED <<regVars, evVars, pureVars, utilVars>>

NextRead ==
    \/ Read_Typedef
    \/ Read_LookupRet
    \/ Read_Value
    \/ Read_ZjsonLine
    \/ Read_ZjsonValues
    \/ Read_EOS
    \/ addType_Lock(Reader)
    \/ addType_Access(Reader)
    \/ addType_Unlock(Reader)
    \/ parseType_RLock1(Reader)
    \/ parseType_Read1(Reader)
    \/ parseType_RUnlock1(Reader)
    \/ parseType_RLock2(Reader)
    \/ parseType_Read2(Reader)
    \/ parseType_RUnlock2(Reader)
    \/ parseType_BodyRet(Reader)
    \/ parseType_AddRet(Reader)
    \/ parseRecordTypeBody_Start(Reader)
    \/ parseRecordTypeBody_Ret(Reader)
    \/ parseSetTypeBody_Start(Reader)
    \/ parseSetTypeBody_Ret(Reader)
    \/ Read_BzngTypedef
    \/ Read_BzngControl
    \/ Read_BzngValue

SpecRead == InitRead /\ [][NextRead]_vars

\* ====================================================================
\* ContainerLength
\* ====================================================================

\* The registry with the evaluator's types, and no call in progress.
RegistryIdle ==
    /\ heap = EvalHeap
    /\ slices = EvalSlices
    /\ typeMap = EvalTypeMap
    /\ typeMapMutex = [writer |-> NoThread, readers |-> {}]
    /\ stack = [t \in Threads |-> <<>>]
    /\ ret = [t \in Threads |-> NoRet]
    /\ call = [t \in Threads |-> Idle]
    /\ ncalls = 0
    /\ issued = {}
    /\ inserted = {}
    /\ discarded = {}

\* No resolver and no reader is in use.
EvalIdle ==
    /\ evRec = [Type |-> Nil, Raw |-> <<>>]
    /\ evPath = Path("", <<>>)
    /\ evAst = <<>>
    /\ evErr = ""
    /\ evRead = FALSE
    /\ evStr = NotPrinted
    /\ evI = 0
    /\ evE = NoValue
    /\ evPrev = NoValue
    /\ evPc = "idle"
    /\ pResolvers = <<>>
    /\ pRecords = <<>>
    /\ pCall = NoCall
    /\ pCalls = 0
    /\ pResults = <<>>
    /\ rdFormat = "zng"
    /\ rdStream = <<>>
    /\ rdPos = 0
    /\ rdTags = <<>>
    /\ rdOut = <<>>
    /\ rdErr = ""
    /\ rdPc = "idle"

Length(n, err) == [n |-> n, err |-> err]

NoLength == Length(0, "not called")

RECURSIVE ContainerLengthWalk(_, _)
\* The loop of ContainerLength: n elements have been walked.
ContainerLengthWalk(it, n) ==
    IF IterDone(it) THEN Length(n, "")
    ELSE LET x == IterNext(it) IN
         IF x.err # "" THEN Length(-1, x.err)
         ELSE ContainerLengthWalk(x.rest, n + 1)

\* Faulty variant: a record counts as a container.
ContainerLength_anyContainer(e) ==
    IF e.Type # Nil /\ heap[e.Type].kind \in {"set", "vector", "record"}
    THEN IF e.Body.isnil THEN Length(-1, "ErrLenUnset")
         ELSE ContainerLengthWalk(Iter(e.Body), 0)
    ELSE Length(-1, "ErrNotContainer")

\* ContainerLength(e): [n, err]
ContainerLength(e) ==
    IF e.Type # Nil /\ heap[e.Type].kind \in {"set", "vector"}
    THEN IF e.Body.isnil THEN Length(-1, "ErrLenUnset")
         ELSE ContainerLengthWalk(Iter(e.Body), 0)
    ELSE Length(-1, "ErrNotContainer")

LenTypes == {Nil, TypeString, TypeLL, TypeREC, TypeVecString, TypeSetString, TypeVecLL}

LenElems == {VUnsetPrim, VPrim(B_a), VPrim(B_NYC), VCont(<<VPrim(B_N), VPrim(B_40)>>)}

\* Bodies that end inside an element.
TruncatedBodies == {<<8, 78>>, <<4, 97, 6>>, <<128>>, <<4, 97, 9, 4>>}

\* The values handed to ContainerLength, each with the number of elements
\* its body was encoded from, -1 for a nil or a truncated body.
LenInputs ==
    {[e |-> Value(t, Bytes(EncodeAll(q))), elems |-> Len(q)] :
        t \in LenTypes, q \in UNION {[1..n -> LenElems] : n \in 0..MaxElems}}
    \cup {[e |-> Value(t, NilBytes), elems |-> -1] : t \in LenTypes}
    \cup {[e |-> Value(t, Bytes(b)), elems |-> -1] : t \in LenTypes, b \in TruncatedBodies}

InitLen ==
    /\ RegistryIdle
    /\ EvalIdle
    /\ \E in \in LenInputs : clE = in.e /\ clElems = in.elems
    /\ clRet = NoLength
    /\ ProcTestIdle
    /\ CompileIdle

ContainerLength_Call ==
    /\ clRet = NoLength
    /\ clRet' = ContainerLength(clE)
    /\ UNCHANGED <<clE, clElems, ptVars, cfVars>>
    /\ UNCHANGED <<regVars, evVars, pureVars, rdVars>>

NextLen == ContainerLength_Call

SpecLen == InitLen /\ [][NextLen]_vars

\* ====================================================================
\* CompileFieldExprs
\* ====================================================================

Resolvers(isnil, resolvers, err) ==
    [isnil |-> isnil, resolvers |-> resolvers, err |-> err]

NotCompiled == Resolvers(TRUE, <<>>, "not called")

RECURSIVE CompileEach_partial(_, _)
\* Faulty variant: the resolvers compiled before the error are returned.
CompileEach_partial(nodes, resolvers) ==
    IF nodes = <<>> THEN Resolvers(FALSE, resolvers, "")
    ELSE LET c == CompileLoop(nodes[1], <<>>) IN
         IF c.err # "" THEN Resolvers(FALSE, resolvers, c.err)
         ELSE CompileEach_partial(Tail(nodes), Append(resolvers, Path(c.field, c.ops)))

RECURSIVE CompileEach(_, _)
\* The loop of CompileFieldExprs over the nodes left.
CompileEach(nodes, resolvers) ==
    IF nodes = <<>> THEN Resolvers(FALSE, resolvers, "")
    ELSE LET c == CompileLoop(nodes[1], <<>>) IN
         IF c.err # "" THEN Resolvers(TRUE, <<>>, c.err)
         ELSE CompileEach(Tail(nodes), Append(resolvers, Path(c.field, c.ops)))

\* CompileFieldExprs(nodes): [isnil, resolvers, err]
CompileFieldExprs(nodes) ==
    IF nodes.isnil THEN Resolvers(TRUE, <<>>, "")
    ELSE CompileEach(nodes.elems, <<>>)

\* The numeral of 1<<63, out of the range of a 64-bit integer.
TooBig == Cutoff64

CompileNodes ==
    { <<FieldRead("a")>>,
      <<FieldCall("Index", <<"1">>), FieldRead("v")>>,
      <<FieldCall("RecordFieldRead", <<"b">>), FieldRead("a")>>,
      <<FieldCall("Index", <<"-">> \o Cutoff64), FieldRead("v")>>,
      <<FieldCall("Len", <<>>), FieldRead("v")>>,
      <<FieldCall("Index", <<"x">>), FieldRead("v")>>,
      <<FieldCall("Index", TooBig), FieldRead("v")>>,
      <<FieldCall("RecordFieldRead", <<"b">>), FieldCall("Len", <<>>), FieldRead("a")>>,
      <<FieldCall("Index", <<"0">>)>>,
      <<>> }

MaxNodes == 2

InitCompile ==
    /\ RegistryIdle
    /\ EvalIdle
    /\ LenIdle
    /\ ProcTestIdle
    /\ \/ cfNodes = [isnil |-> TRUE, elems |-> <<>>]
       \/ \E elems \in UNION {[1..n -> CompileNodes] : n \in 0..MaxNodes} :
             cfNodes = [isnil |-> FALSE, elems |-> elems]
    /\ cfRet = NotCompiled

CompileFieldExprs_Call ==
    /\ cfRet = NotCompiled
    /\ cfRet' = CompileFieldExprs(cfNodes)
    /\ UNCHANGED <<cfNodes, lenVars, ptVars>>
    /\ UNCHANGED <<regVars, evVars, pureVars, rdVars>>

NextCompile == CompileFieldExprs_Call

SpecCompile == InitCompile /\ [][NextCompile]_vars

\* ====================================================================
\* ProcTest
\* ====================================================================

\* make(chan string, 5)
WarningsCap == 5

NilBatch == [isnil |-> TRUE, recs |-> <<>>]

Batch(recs) == [isnil |-> FALSE, recs |-> recs]

\* One Pull of the proc under test: the batch and the error it returns, and
\* the warning it sends to the context meanwhile, "" for none.
Response(b, err, warning) == [b |-> b, err |-> err, warning |-> warning]

Rec_a == [Type |-> TypeString, Raw |-> <<4, 97>>]

Rec_b == [Type |-> TypeString, Raw |-> <<4, 98>>]

Rec_int == [Type |-> TypeInt, Raw |-> <<4, 97>>]

Responses ==
    { Response(Batch(<<Rec_a>>), "", ""),
      Response(Batch(<<Rec_int>>), "", "w"),
      Response(NilBatch, "", ""),
      Response(NilBatch, "", "w"),
      Response(NilBatch, "proc error", "") }

\* The batches a test expects.
Expected == {Batch(<<Rec_a>>), Batch(<<Rec_b>>), Batch(<<Rec_a, Rec_a>>)}

\* NewProcTest(proc, ctx) with a context of NewTestContext.
InitProcTest ==
    /\ RegistryIdle
    /\ EvalIdle
    /\ LenIdle
    /\ CompileIdle
    /\ eos = FALSE
    /\ Warnings = <<>>
    /\ \E script \in UNION {[1..n -> Responses] : n \in 0..MaxPulls} :
          compiledProc = [script |-> script, idx |-> 0]
    /\ ptRet = [op |-> "", b |-> NilBatch, err |-> ""]
    /\ ptOps = 0

\* What the next Pull of the proc under test does: past its script it is at
\* the end of its stream.
ProcResponse ==
    IF compiledProc.idx < Len(compiledProc.script)
    THEN compiledProc.script[compiledProc.idx + 1]
    ELSE Response(NilBatch, "", "")

\* A Pull of the proc under test can return: the warning it sends fits in
\* the channel.
CanPull == eos \/ ProcResponse.warning = "" \/ Len(Warnings) < WarningsCap

Pulled(b, err, e, idx, warnings) ==
    [b |-> b, err |-> err, eos |-> e, idx |-> idx, Warnings |-> warnings]

\* Faulty variant: the proc under test is pulled whatever eos is.
Pull_noLatch ==
    LET r == ProcResponse IN
    Pulled(r.b, r.err, eos \/ (r.b.isnil /\ r.err = ""), compiledProc.idx + 1,
           IF r.warning # "" THEN Append(Warnings, r.warning) ELSE Warnings)

\* p.Pull(): the batch and the error returned, and eos, the proc under test
\* and the channel after it.
Pull ==
    IF eos
    THEN Pulled(NilBatch, "called Pull() after EOS", eos, compiledProc.idx, Warnings)
    ELSE LET r == ProcResponse IN
         Pulled(r.b, r.err, r.b.isnil /\ r.err = "", compiledProc.idx + 1,
                IF r.warning # "" THEN Append(Warnings, r.warning) ELSE Warnings)

\* A method that called Pull returns err.
Returns(op, p, err) ==
    /\ eos' = p.eos
    /\ compiledProc' = [compiledProc EXCEPT !.idx = p.idx]
    /\ Warnings' = p.Warnings
    /\ ptRet' = [op |-> op, b |-> p.b, err |-> err]
    /\ ptOps' = ptOps + 1
    /\ UNCHANGED <<lenVars, cfVars>>
    /\ UNCHANGED <<regVars, evVars, pureVars, rdVars>>

\* The test calls p.Pull().
Pull_Call ==
    /\ ptOps < MaxTestOps /\ CanPull
    /\ Returns("Pull", Pull, Pull.err)

ExpectEOS ==
    /\ ptOps < MaxTestOps /\ CanPull
    /\ LET p == Pull IN
       Returns("ExpectEOS", p,
               IF p.err # "" THEN p.err
               ELSE IF ~p.b.isnil THEN "got more data after ExpectEOS()"
               ELSE "")

\* The first difference between the records received and those expected.
Mismatch(received, data) ==
    IF Len(received) # Len(data) THEN "expected n records, got m"
    ELSE IF \A i \in 1..Len(data) : received[i] = data[i] THEN ""
    ELSE LET i == CHOOSE i \in 1..Len(data) :
                      /\ received[i] # data[i]
                      /\ \A j \in 1..(i - 1) : received[j] = data[j]
         IN IF received[i].Type # data[i].Type THEN "descriptor mismatch in record"
            ELSE "mismatch in record"

Expect(data) ==
    /\ ptOps < MaxTestOps /\ CanPull
    /\ LET p == Pull IN
       Returns("Expect", p,
               IF p.err # "" THEN p.err
               ELSE IF p.b.isnil THEN "got EOS while expecting more data"
               ELSE Mismatch(p.b.recs, data.recs))

\* A receive from the channel that does not wait.
ExpectWarning(expected) ==
    /\ ptOps < MaxTestOps
    /\ IF Warnings # <<>>
       THEN /\ Warnings' = Tail(Warnings)
            /\ ptRet' = [op |-> "ExpectWarning", b |-> NilBatch,
                         err |-> IF Head(Warnings) = expected THEN ""
                                 ELSE "mismatch in warning"]
       ELSE /\ Warnings' = Warnings
            /\ ptRet' = [op |-> "ExpectWarning", b |-> NilBatch,
                         err |-> "did not receive expected warning"]
    /\ ptOps' = ptOps + 1
    /\ UNCHANGED <<eos, compiledProc, lenVars, cfVars>>
    /\ UNCHANGED <<regVars, evVars, pureVars, rdVars>>

\* Faulty variant: the channel is not looked at.
Finish_ignoreWarnings ==
    /\ ptOps < MaxTestOps
    /\ ptRet' = [op |-> "Finish", b |-> NilBatch,
                 err |-> IF ~eos THEN "finished test before EOS" ELSE ""]
    /\ ptOps' = ptOps + 1
    /\ UNCHANGED <<eos, Warnings, compiledProc, lenVars, cfVars>>
    /\ UNCHANGED <<regVars, evVars, pureVars, rdVars>>

Finish ==
    /\ ptOps < MaxTestOps
    /\ IF ~eos
       THEN /\ Warnings' = Warnings
            /\ ptRet' = [op |-> "Finish", b |-> NilBatch, err |-> "finished test before EOS"]
       ELSE IF Warnings # <<>>
       THEN /\ Warnings' = Tail(Warnings)
            /\ ptRet' = [op |-> "Finish", b |-> NilBatch, err |-> "got unexpected warning"]
       ELSE /\ Warnings' = Warnings
            /\ ptRet' = [op |-> "Finish", b |-> NilBatch, err |-> ""]
    /\ ptOps' = ptOps + 1
    /\ UNCHANGED <<eos, compiledProc, lenVars, cfVars>>
    /\ UNCHANGED <<regVars, evVars, pureVars, rdVars>>

NextProcTest ==
    \/ Pull_Call
    \/ ExpectEOS
    \/ \E data \in Expected : Expect(data)
    \/ \E expected \in {"w", "x"} : ExpectWarning(expected)
    \/ Finish

SpecProcTest == InitProcTest /\ [][NextProcTest]_vars

\* ------------------------------------------------------------ properties

Range(f) == {f[x] : x \in DOMAIN f}

Registered == Range(typeMap)

\* A thread whose API call has run to its end and holds the result.
Returned(t) == call[t].op # "idle" /\ stack[t] = <<>>

AllDone == ncalls = MaxCalls /\ \A t \in Threads : call[t].op = "idle"

\* C1: interning uniqueness.  Any two types returned to callers that print
\* to the same canonical form are the same object, and the registry never
\* holds two distinct objects that print alike: pointer equality (SameType)
\* coincides with equality of the printed structure.
C1_InterningUnique ==
    /\ \A i, j \in issued : String(i.ptr) = String(j.ptr) => i.ptr = j.ptr
    /\ Cardinality({String(p) : p \in Registered}) = Cardinality(Registered)

\* Two calls for one compound type have both returned, the later one having
\* dropped its own candidate for the registered object.
C1_Witness ==
    /\ AllDone
    /\ \E p \in discarded : \E i \in issued :
          String(p) = String(i.ptr) /\ i.ptr # p /\ heap[i.ptr].kind # "prim"

\* C2: racing double-intern.  Under every interleaving each key is written
\* to the map at most once, and every call returns the object registered
\* under its key, never a candidate that lost.
C2_RaceOneWinner ==
    /\ \A v, w \in inserted : v.key = w.key => v.ptr = w.ptr
    /\ \A t \in Threads :
          Returned(t) /\ ret[t].typ # Nil =>
             /\ ret[t].typ \notin discarded
             /\ String(ret[t].typ) \in DOMAIN typeMap
             /\ typeMap[String(ret[t].typ)] = ret[t].typ

\* A thread that missed the key under the read lock finds it present once it
\* holds the exclusive lock: the other thread won the race.
C2_Witness ==
    \E t \in Threads : at(t, "ltr_access") /\ top(t).in \in DOMAIN typeMap

ReadPCs == {"pt_read1", "pt_read2", "ltr_read"}

WritePCs == {"at_access", "ltr_access"}

Reading(t) == stack[t] # <<>> /\ top(t).pc \in ReadPCs

Writing(t) == stack[t] # <<>> /\ top(t).pc \in WritePCs

\* C3: shared-reader / exclusive-writer discipline.  A thread in a section
\* that writes the map holds the exclusive lock, a thread in a section that
\* reads it holds the shared or the exclusive lock, and no writing section
\* overlaps another thread's reading or writing section.
C3_LockDiscipline ==
    /\ \A t \in Threads : Writing(t) => typeMapMutex.writer = t
    /\ \A t \in Threads :
          Reading(t) => t \in typeMapMutex.readers \/ typeMapMutex.writer = t
    /\ \A t, u \in Threads :
          t # u /\ Writing(t) => ~Reading(u) /\ ~Writing(u)
    /\ typeMapMutex.writer # NoThread => typeMapMutex.readers = {}

\* One thread is inside its exclusive section while the other waits to read.
C3_Witness ==
    \E t, u \in Threads :
        t # u /\ Writing(t) /\ (at(u, "pt_rlock1") \/ at(u, "ltr_rlock"))

\* C4: registry bindings are permanent.  No step removes a key of the map or
\* binds it to another object.
C4_BindingsPermanent ==
    [][\A k \in DOMAIN typeMap : k \in DOMAIN typeMap' /\ typeMap'[k] = typeMap[k]]_vars

\* The map has grown and a later call for a registered key has come and gone.
C4_Witness ==
    /\ AllDone
    /\ DOMAIN typeMap # DOMAIN InitTypeMap
    /\ discarded # {}

\* C5: issued record handles are immutable with respect to the caller's
\* input.  Whatever a caller does to the slice it passed, every registered
\* record still has the key it is registered under and its columns still
\* print to that key.
C5_RecordColumnsPrivate ==
    \A k \in DOMAIN typeMap :
        heap[typeMap[k]].kind = "record" =>
            /\ heap[typeMap[k]].key = k
            /\ recordString(heap, slices, slices[heap[typeMap[k]].cols]) = k

\* A caller has overwritten an element of the slice from which a registered
\* record was made.
C5_Witness ==
    \E p \in Registered : \E s \in 1..Len(slices) :
        /\ heap[p].kind = "record" /\ s # heap[p].cols
        /\ Len(slices[s]) = Len(slices[heap[p].cols])
        /\ \E i \in 1..Len(slices[s]) :
              slices[s][i] = Scribble /\ slices[heap[p].cols][i] # Scribble
        /\ \A i \in 1..Len(slices[s]) :
              slices[s][i] \in {Scribble, slices[heap[p].cols][i]}

\* C6: type print/parse round trip.  LookupType of the printed form of a
\* type a caller holds succeeds and returns that very object.
C6_PrintParseRoundTrip ==
    \A t \in Threads :
        Returned(t) /\ call[t].op = "LookupType" /\ call[t].expect # Nil =>
            ret[t].err = "" /\ ret[t].typ = call[t].expect

\* The round trip of a nested type, a record with a vector column, is done.
C6_Witness ==
    \E t \in Threads :
        /\ Returned(t) /\ call[t].op = "LookupType" /\ call[t].expect # Nil
        /\ heap[call[t].expect].kind = "record"
        /\ heap[slices[heap[call[t].expect].cols][1].Type].kind = "vector"
        /\ ret[t].typ = call[t].expect

\* ------------------------------------------- properties of the evaluator

RECURSIVE WellFormed(_)
\* The whole body is a sequence of well-formed tagged elements.
WellFormed(it) ==
    IterDone(it) \/ (IterNext(it).err = "" /\ WellFormed(IterNext(it).rest))

\* The operation applied last, to evPrev, giving evE.
LastOp == evPath.ops[evI]

AppliedField == evI >= 1 /\ LastOp.kind = "field"

AppliedIndex == evI >= 1 /\ LastOp.kind = "index"

\* C7: field read result.  A field read of f on a record-typed value whose
\* first column named f has ordinal n and whose body starts with at least
\* n + 1 well-formed elements yields the type of column n and the bytes of
\* element n + 1 of the body; lat.compass on [NYC;[N;40;][W;74;]] yields
\* (string, "N").
C7_FieldReadResult ==
    /\ ( /\ AppliedField
         /\ heap[evPrev.Type].kind = "record"
         /\ HasColumn(evPrev.Type, LastOp.field)
         /\ Len(ElementBodies(Iter(evPrev.Body))) > ColumnOrdinal(evPrev.Type, LastOp.field) )
       => LET n == ColumnOrdinal(evPrev.Type, LastOp.field) IN
          evE = Value(Columns(evPrev.Type)[n + 1].Type,
                      ElementBodies(Iter(evPrev.Body))[n + 1])
    /\ ( evRec = NYC /\ evPath = Path("lat", <<FieldOp("compass")>>) /\ evPc = "done" )
       => evE = Value(TypeString, Bytes(B_N))

\* lat.degree has been read from a record whose lat holds two elements.
C7_Witness ==
    /\ evPc = "done" /\ AppliedField /\ LastOp.field = "degree"
    /\ evPrev.Type = TypeLL /\ evPath.field = "lat"
    /\ evE = Value(TypeDouble, Bytes(B_40))

\* The record is well formed: one well-formed element for each column.
WellFormedRecord ==
    /\ WellFormed(evRec.Raw)
    /\ Len(ElementBodies(evRec.Raw)) = Len(Columns(evRec.Type))

\* C8: unset preservation through nested field access.  In a well-formed
\* record, a field read of an existing column on an unset record-typed
\* value yields unset with the column's type (long.degree on
\* [NorthPole;[N;90;]-;] yields unset of type double).
C8_UnsetKeepsColumnType ==
    ( /\ WellFormedRecord
      /\ AppliedField
      /\ heap[evPrev.Type].kind = "record"
      /\ evPrev.Body.isnil
      /\ HasColumn(evPrev.Type, LastOp.field) )
    => evE = Value(Columns(evPrev.Type)[ColumnOrdinal(evPrev.Type, LastOp.field) + 1].Type,
                   NilBytes)

C10_SetIndexed ==
    ( /\ AppliedIndex
      /\ heap[evPrev.Type].kind = "set"
      /\ WellFormed(Iter(evPrev.Body))
      /\ LastOp.idx >= 0
      /\ LastOp.idx < Len(ElementBodies(Iter(evPrev.Body))) )
    => evE = Value(heap[evPrev.Type].inner,
                   ElementBodies(Iter(evPrev.Body))[LastOp.idx + 1])

\* C10 amended: indexing does not accept sets.  Any index applied to a
\* set-typed value yields the empty value, nil type and nil body, and ends
\* the evaluation of the path.
C10_SetNotIndexable ==
    ( AppliedIndex /\ heap[evPrev.Type].kind = "set" )
    => evE = NoValue /\ evPc = "done"

\* A set that holds elements has been indexed within its range.
C10_Witness ==
    /\ AppliedIndex /\ heap[evPrev.Type].kind = "set"
    /\ LastOp.idx >= 0
    /\ LastOp.idx < Len(ElementBodies(Iter(evPrev.Body)))

\* The resolver has returned from its look-up of the top field.
PastTop == evPc \in {"ops", "done"}

\* C11: top field absent.  When the top field of the path is no column of
\* the record's type the resolver returns the empty value, nil type and nil
\* body, having applied no operation and not read the record's body.
C11_TopFieldAbsent ==
    ( PastTop /\ ~HasColumn(evRec.Type, evPath.field) )
    => /\ evE = NoValue /\ evPc = "done"
       /\ evI = 0 /\ evPrev = NoValue
       /\ ~evRead

\* A path with operations has been resolved on a record without its top field.
C11_Witness ==
    /\ evPc = "done" /\ ~HasColumn(evRec.Type, evPath.field)
    /\ evPath.ops # <<>> /\ evE = NoValue

\* C12: nested field read failure.  A field read applied to a value that is
\* no record, or whose record type has no column of that name, makes the
\* empty value the result of the path and skips the operations that remain.
C12_NestedFieldReadFails ==
    ( /\ AppliedField
      /\ \/ heap[evPrev.Type].kind # "record"
         \/ ~HasColumn(evPrev.Type, LastOp.field) )
    => evE = NoValue /\ evPc = "done"

\* A field read has failed on a string with an operation still to apply.
C12_Witness ==
    /\ AppliedField /\ heap[evPrev.Type].kind = "prim"
    /\ evI < Len(evPath.ops) /\ evPc = "done"

\* C13: index on a value that is not indexable.  An index applied to a
\* primitive or a record yields the empty value, no error, and ends the
\* evaluation of the path.
C13_IndexNotIndexable ==
    ( AppliedIndex /\ heap[evPrev.Type].kind \in {"prim", "record"} )
    => evE = NoValue /\ evPc = "done" /\ evErr = ""

\* A record has been indexed with an operation still to apply.
C13_Witness ==
    /\ AppliedIndex /\ heap[evPrev.Type].kind = "record"
    /\ evI < Len(evPath.ops) /\ evPc = "done"

\* The AST is a chain of Index and RecordFieldRead calls, with parameters the
\* compiler accepts, around a field read.
CompilableAst(ast) ==
    /\ ast # <<>>
    /\ ast[Len(ast)].node = "FieldRead"
    /\ \A i \in 1..(Len(ast) - 1) :
          \/ ast[i].Fn = "RecordFieldRead"
          \/ ast[i].Fn = "Index" /\ ParseInt(ast[i].Param).err = ""

\* The operation a call node stands for.
OpOf(c) ==
    IF c.Fn = "Index" THEN IndexOp(ParseInt(c.Param).val) ELSE FieldOp(Word(c.Param))

\* C15: compilation order.  For calls c_k( ... c_1(FieldRead f) ... ) the
\* compiled resolver has top field f and the operations c_1, ..., c_k,
\* innermost first, and applies them in that order: w[0].compass applies
\* index 0 and then the field read of compass.
C15_CompilationOrder ==
    /\ ( evPc # "compile" /\ CompilableAst(evAst) )
       => LET k == Len(evAst) - 1 IN
          /\ evErr = ""
          /\ evPath.field = evAst[k + 1].Field
          /\ Len(evPath.ops) = k
          /\ \A i \in 1..k : evPath.ops[i] = OpOf(evAst[k + 1 - i])
          /\ evI >= 1 => LastOp = OpOf(evAst[k + 1 - evI])
    /\ ( evPc = "done" /\ evAst = Ast_w0compass /\ evRec = MixRecord )
       => evI = 2 /\ evE = Value(TypeString, Bytes(B_N))

\* w[0].compass has been compiled and resolved to its leaf.
C15_Witness ==
    /\ evPc = "done" /\ evAst = Ast_w0compass /\ evRec = MixRecord
    /\ evPath.ops = <<IndexOp(0), FieldOp("compass")>>

RECURSIVE OpsText(_)
\* The text of a list of compiled operations, in the order of the list.
OpsText(ops) ==
    IF ops = <<>> THEN <<>>
    ELSE (IF ops[1].kind = "index" THEN <<"[">> \o Numeral(ops[1].idx) \o <<"]">>
          ELSE <<".", ops[1].field>>) \o OpsText(Tail(ops))

\* C16: path printing.  The printed path is the top field followed by the
\* text of each operation, [param] for Index and .param for
\* RecordFieldRead, in the order in which the compiled resolver applies
\* them, and a Len call wraps that text in len( ).
C16_PathPrinting ==
    /\ ( evPc = "printed" /\ CompilableAst(evAst) )
       => LET p == CompileLoop(evAst, <<>>) IN
          evStr = <<p.field>> \o OpsText(p.ops)
    /\ ( evPc = "printed" /\ evAst # <<>> /\ evAst[1].Fn = "Len"
         /\ CompilableAst(Tail(evAst)) )
       => LET p == CompileLoop(Tail(evAst), <<>>) IN
          evStr = <<"len", "(", p.field>> \o OpsText(p.ops) \o <<")">>
    /\ ( evPc = "printed" /\ evAst = Ast_w0compass )
       => evStr = <<"w", "[", "0", "]", ".", "compass">>

\* A path of an index and a field read has been printed.
C16_Witness ==
    /\ evPc = "printed" /\ Len(evAst) = 3
    /\ evAst[1].Fn = "RecordFieldRead" /\ evAst[2].Fn = "Index"
    /\ evStr = <<evAst[3].Field, "[">> \o evAst[2].Param \o <<"]", ".">> \o evAst[1].Param

\* C14: evaluator purity.  Every call of a resolver on a record returns the
\* same value as every other call of that resolver on that record, whatever
\* calls come between, and no step changes a record or the field and ops a
\* resolver holds.
C14_Purity ==
    /\ [](\A k \in DOMAIN pResults : Cardinality(pResults[k]) <= 1)
    /\ [][pResolvers' = pResolvers /\ pRecords' = pRecords]_vars

\* Three calls have returned, two of them of one resolver on one record, and
\* the last has returned a value with a type.
C14_Witness ==
    /\ pCalls = 3 /\ evPc = "idle" /\ evE.Type # Nil
    /\ Cardinality({k \in DOMAIN pResults : pResults[k] # {}}) = 2

\* ------------------------------------------- properties of the readers

RECURSIVE DupIn(_, _)
\* The type text names a column twice within one pair of brackets; open
\* holds the names met so far in each bracket still open, innermost last.
DupIn(toks, open) ==
    IF toks = <<>> THEN FALSE
    ELSE IF toks[1] = "[" THEN DupIn(Tail(toks), Append(open, {}))
    ELSE IF toks[1] = "]" THEN DupIn(Tail(toks), SubSeq(open, 1, Len(open) - 1))
    ELSE IF Len(toks) >= 2 /\ toks[2] = ":"
    THEN \/ toks[1] \in open[Len(open)]
         \/ DupIn(Tail(Tail(toks)), [open EXCEPT ![Len(open)] = @ \cup {toks[1]}])
    ELSE DupIn(Tail(toks), open)

RECURSIVE Kinds(_, _)
\* The kinds of the elements at depth 1 of a value's text: "term" for a
\* terminal, "unset" for the terminal "-", "cont" for a bracketed element.
Kinds(toks, depth) ==
    IF toks = <<>> THEN <<>>
    ELSE IF toks[1] = "[" THEN Kinds(Tail(toks), depth + 1)
    ELSE IF toks[1] = "]"
    THEN IF depth = 1 THEN <<>>
         ELSE (IF depth = 2 THEN <<"cont">> ELSE <<>>) \o Kinds(Tail(toks), depth - 1)
    ELSE IF toks[1] = ";" THEN Kinds(Tail(toks), depth)
    ELSE (IF depth = 1 THEN <<IF toks[1] = "-" THEN "unset" ELSE "term">> ELSE <<>>)
         \o Kinds(Tail(toks), depth)

TopKinds(toks) == Kinds(Tail(toks), 1)

\* The kinds of the elements of a zjson record value.
JsonKinds(j) ==
    [i \in 1..Len(j.elems) |->
        CASE j.elems[i].k = "arr" -> "cont"
          [] j.elems[i].k = "null" -> "unset"
          [] OTHER -> "term"]

\* The kinds of the top-level elements a line supplies.
LineKinds(l) == IF rdFormat = "zng" THEN TopKinds(l.text) ELSE JsonKinds(l.values)

\* The lines of the stream that carry a value, in order.
ValueLines ==
    IF rdFormat = "zjson" THEN rdStream
    ELSE SelectSeq(rdStream, LAMBDA l : l.kind = "value")

\* The reader has stopped at a value whose type it had found.
FailedAtValue ==
    /\ rdPc = "failed" /\ LineTag \in DOMAIN rdTags
    /\ rdFormat # "zjson" => Line.kind = "value"

PrimColumn(typ, i) == ~IsContainerType(Columns(typ)[i].Type)

\* Columns and elements are all primitive.
Flat(typ, kinds) ==
    /\ heap[typ].kind = "record"
    /\ \A i \in 1..Len(Columns(typ)) : PrimColumn(typ, i)
    /\ \A i \in 1..Len(kinds) : kinds[i] \in {"term", "unset"}

C18_ExtraFieldRejected ==
    rdFormat = "zng" =>
    /\ \A k \in 1..Len(rdOut) : heap[rdOut[k].Type].kind = "record" =>
          /\ Len(ElementBodies(rdOut[k].Raw)) = Len(TopKinds(ValueLines[k].text))
          /\ Len(ElementBodies(rdOut[k].Raw)) <= Len(Columns(rdOut[k].Type))
    /\ ( /\ FailedAtValue
         /\ Flat(rdTags[Line.tag], TopKinds(Line.text))
         /\ Len(TopKinds(Line.text)) > Len(Columns(rdTags[Line.tag])) )
       => rdErr = "ErrExtraField"

\* The value [1;2;] of type record[a:string] has been rejected.
C18_Witness ==
    /\ rdFormat = "zng" /\ FailedAtValue /\ rdErr = "ErrExtraField"
    /\ Len(TopKinds(Line.text)) = 2 /\ Len(Columns(rdTags[Line.tag])) = 1

\* C19: missing field rejection.  No delivered record holds fewer elements
\* than its type has columns, and a line of primitive elements that supplies
\* fewer of them than the record type of primitive columns has ends the
\* stream with the missing-field error.
C19_MissingFieldRejected ==
    rdFormat = "zng" =>
    /\ \A k \in 1..Len(rdOut) : heap[rdOut[k].Type].kind = "record" =>
          /\ Len(TopKinds(ValueLines[k].text)) >= Len(Columns(rdOut[k].Type))
          /\ Len(ElementBodies(rdOut[k].Raw)) >= Len(Columns(rdOut[k].Type))
    /\ ( /\ FailedAtValue
         /\ Flat(rdTags[Line.tag], TopKinds(Line.text))
         /\ Len(TopKinds(Line.text)) < Len(Columns(rdTags[Line.tag])) )
       => rdErr = "ErrMissingField"

\* The value [1;] of type record[a:string,b:string] has been rejected.
C19_Witness ==
    /\ rdFormat = "zng" /\ FailedAtValue /\ rdErr = "ErrMissingField"
    /\ Len(TopKinds(Line.text)) = 1 /\ Len(Columns(rdTags[Line.tag])) = 2
    /\ Flat(rdTags[Line.tag], TopKinds(Line.text))

\* Element i is a container in the place of a primitive column, and the
\* elements before it are terminals in the place of primitive columns.
ContainerForPrimitive(typ, kinds, i) ==
    /\ heap[typ].kind = "record"
    /\ i <= Len(kinds) /\ i <= Len(Columns(typ))
    /\ kinds[i] = "cont" /\ PrimColumn(typ, i)
    /\ \A j \in 1..(i - 1) : kinds[j] \in {"term", "unset"} /\ PrimColumn(typ, j)

\* C20: container where primitive expected.  A value with a container
\* element in the place of a primitive column ends the stream with the
\* not-primitive error, in the zng text form and in the zjson form alike,
\* and no such value is delivered.
C20_NotPrimitive ==
    rdFormat \in {"zng", "zjson"} =>
    /\ \A k \in 1..Len(rdOut) :
          \A i \in 1..Len(LineKinds(ValueLines[k])) :
              ~ContainerForPrimitive(rdOut[k].Type, LineKinds(ValueLines[k]), i)
    /\ ( /\ FailedAtValue
         /\ \E i \in 1..Len(LineKinds(Line)) :
               ContainerForPrimitive(rdTags[LineTag], LineKinds(Line), i) )
       => rdErr = "ErrNotPrimitive"

\* [["1"]] of type [{a:string}] has been rejected in the zjson form.
C20_Witness ==
    /\ rdFormat = "zjson" /\ FailedAtValue /\ rdErr = "ErrNotPrimitive"
    /\ ContainerForPrimitive(rdTags[LineTag], LineKinds(Line), 1)

\* Element i is a terminal other than the unset one in the place of a
\* container column, and the elements before it are unset or are terminals
\* in the place of primitive columns.
PrimitiveForContainer(typ, kinds, i) ==
    /\ heap[typ].kind = "record"
    /\ i <= Len(kinds) /\ i <= Len(Columns(typ))
    /\ kinds[i] = "term" /\ ~PrimColumn(typ, i)
    /\ \A j \in 1..(i - 1) : kinds[j] = "unset" \/ (kinds[j] = "term" /\ PrimColumn(typ, j))

\* C21: primitive where container expected.  A value with a primitive
\* element in the place of a container column ends the stream with the
\* not-container error, in the zng text form and in the zjson form alike,
\* and no such value is delivered; an unset element in that place is not
\* such a value.
C21_NotContainer ==
    rdFormat \in {"zng", "zjson"} =>
    /\ \A k \in 1..Len(rdOut) :
          \A i \in 1..Len(LineKinds(ValueLines[k])) :
              ~PrimitiveForContainer(rdOut[k].Type, LineKinds(ValueLines[k]), i)
    /\ ( /\ FailedAtValue
         /\ \E i \in 1..Len(LineKinds(Line)) :
               PrimitiveForContainer(rdTags[LineTag], LineKinds(Line), i) )
       => rdErr = "ErrNotContainer"

\* [1;] of type record[foo:record[foo:string,bar:string]] has been rejected
\* in the zng text form.
C21_Witness ==
    /\ rdFormat = "zng" /\ FailedAtValue /\ rdErr = "ErrNotContainer"
    /\ Line.text = <<"[", "1", ";", "]">>
    /\ PrimitiveForContainer(rdTags[LineTag], LineKinds(Line), 1)

\* The line at position p carries a value.
IsValueAt(p) == rdFormat = "zjson" \/ rdStream[p].kind = "value"

\* The tag or type ID of the value at position p.
TagAt(p) == IF rdFormat = "zjson" THEN rdStream[p].id ELSE rdStream[p].tag

\* The positions, before the value at position p, of the typedefs.
TypedefsBefore(p) ==
    IF rdFormat = "zjson" THEN {q \in 1..p : rdStream[q].type # <<>>}
    ELSE {q \in 1..(p - 1) : rdStream[q].kind = "typedef"}

\* The tags and type IDs the typedefs before position p install.
InstalledBefore(p) ==
    CASE rdFormat = "zng" -> {rdStream[q].tag : q \in TypedefsBefore(p)}
      [] rdFormat = "zjson" -> {rdStream[q].id : q \in TypedefsBefore(p)}
      [] OTHER -> {FirstTypeID + i : i \in 0..(Cardinality(TypedefsBefore(p)) - 1)}

\* A type ID of a primitive type: the binary form has them, tags have not.
PrimitiveID(id) == rdFormat = "bzng" /\ id < NumPrimitiveIDs

\* The text of the type that the last typedef of the tag before p names.
TypeInEffect(p) ==
    LET Q == {q \in TypedefsBefore(p) : TagAt(q) = TagAt(p)}
        last == CHOOSE q \in Q : \A r \in Q : r <= q
    IN IF rdFormat = "zng" THEN rdStream[last].text
       ELSE ZjsonTypeText(rdStream[last].type)

\* C22: typedef before use.  In every stream, in the zng text form, the
\* zjson form and the binary form, every value the reader has passed has a
\* tag that a typedef earlier in the stream installed, or a primitive type
\* ID, and was delivered, in the text forms with the type of the last such
\* typedef; a value whose tag no earlier typedef installed ends the stream
\* with the descriptor-not-found error, and no value whose tag was installed
\* is rejected with that error.
C22_TypedefBeforeUse ==
    /\ \A p \in 1..rdPos : IsValueAt(p) =>
          TagAt(p) \in InstalledBefore(p) \/ PrimitiveID(TagAt(p))
    /\ Len(rdOut) = Cardinality({p \in 1..rdPos : IsValueAt(p)})
    /\ rdFormat # "bzng" =>
          \A k \in 1..Len(rdOut) :
              \E p \in 1..rdPos :
                  /\ IsValueAt(p)
                  /\ Cardinality({q \in 1..p : IsValueAt(q)}) = k
                  /\ String(rdOut[k].Type) = TypeInEffect(p)
    /\ (rdPc = "failed" /\ IsValueAt(rdPos + 1)) =>
          ( rdErr = "ErrDescriptorNotFound"
            <=> ~( TagAt(rdPos + 1) \in InstalledBefore(rdPos + 1)
                   \/ PrimitiveID(TagAt(rdPos + 1)) ) )

\* In the binary form a set typedef was bound to the first type ID, a value
\* of that ID was delivered, and a value of the next ID, which no typedef
\* had installed, was rejected.
C22_Witness ==
    /\ rdFormat = "bzng" /\ rdPos = 2 /\ Len(rdOut) = 1
    /\ rdOut[1].Type = FirstTypeID
    /\ rdPc = "failed" /\ rdErr = "ErrDescriptorNotFound"
    /\ Line.kind = "value" /\ Line.tag = FirstTypeID + 1

\* The typedef messages the reader has passed, in order.
TypedefsRead ==
    SelectSeq(SubSeq(rdStream, 1, rdPos), LAMBDA m : m.kind = "typedef")

\* C23: type ID allocation.  In a binary stream the i-th typedef, counted
\* from 0 over the record, array, set, union and alias typedefs and over no
\* other message, is bound to type ID 23 + i; no typedef is bound to an ID
\* from 0 to 22; a value of an ID from 0 to 18 is a primitive value whatever
\* the typedefs, a value of an ID from 19 to 22 is never accepted; and the
\* ID of an alias differs from the ID of its target.
C23_TypeIDAllocation ==
    rdFormat = "bzng" =>
    /\ DOMAIN rdTags = {FirstTypeID + i : i \in 0..(Len(TypedefsRead) - 1)}
    /\ \A i \in 0..(Len(TypedefsRead) - 1) :
          /\ rdTags[FirstTypeID + i] = TypedefsRead[i + 1]
          /\ TypedefsRead[i + 1].code \in 0..4
          /\ TypedefsRead[i + 1].code = 4 =>
                TypedefsRead[i + 1].ids[1] # FirstTypeID + i
    /\ \A id \in DOMAIN rdTags : id >= 23
    /\ \A k \in 1..Len(rdOut) : rdOut[k].Type \notin 19..22
    /\ (rdPc = "failed" /\ Line.kind = "value") => Line.tag >= 19
    /\ (rdPc = "failed" /\ Line.kind = "value" /\ Line.tag \in 19..22) =>
          rdErr = "ErrDescriptorNotFound"

\* A set typedef, an ordering hint and an alias of the set were read: the
\* alias is bound to 24 and its target is 23.
C23_Witness ==
    /\ rdFormat = "bzng" /\ rdPos = 3 /\ rdPc = "line"
    /\ rdStream[2].kind = "control"
    /\ DOMAIN rdTags = {23, 24}
    /\ rdTags[23].code = 2
    /\ rdTags[24].code = 4 /\ rdTags[24].ids = <<23>>

\* Each byte sequence comes strictly before the next one.
StrictlyAscending(e) == \A i \in 1..(Len(e) - 1) : LexLess(e[i], e[i + 1])

RECURSIVE IsSetID(_)
\* The type ID is that of a set, or of an alias of one.
IsSetID(id) ==
    /\ id \in DOMAIN rdTags
    /\ \/ rdTags[id].code = 2
       \/ rdTags[id].code = 4 /\ IsSetID(rdTags[id].ids[1])

\* The type of a delivered value, or of the tag of a line, is a set type.
IsSetType(typ) ==
    IF rdFormat = "bzng" THEN IsSetID(typ) ELSE heap[typ].kind = "set"

\* The complete encodings of the elements the line supplies for a set.
LineEncodings ==
    IF rdFormat = "bzng" THEN ElementEncodings(Line.body)
    ELSE LET terms == SelectSeq(Line.text, LAMBDA t : t \notin {"[", "]", ";"})
         IN [i \in 1..Len(terms) |-> Encode(VPrim(TextBytes(terms[i])))]

\* C24: set ordering.  In every set value a reader has delivered, at the top
\* or as a column of a delivered record of the binary form, each element's
\* complete encoding, tag and body, is strictly greater in the lexicographic
\* order than the encoding of the element before it; a set value whose
\* elements are out of order or repeated ends the stream with the
\* set-not-sorted error.
C24_SetOrdering ==
    rdFormat \in {"zng", "bzng"} =>
    /\ \A k \in 1..Len(rdOut) :
          IsSetType(rdOut[k].Type) => StrictlyAscending(ElementEncodings(rdOut[k].Raw))
    /\ rdFormat = "bzng" =>
          \A k \in 1..Len(rdOut) :
              (rdOut[k].Type \in DOMAIN rdTags /\ rdTags[rdOut[k].Type].code = 0) =>
                  LET cols == rdTags[rdOut[k].Type].ids
                      elems == ElementBodies(rdOut[k].Raw)
                  IN \A i \in 1..Len(elems) :
                        (IsSetID(cols[i]) /\ ~elems[i].isnil) =>
                            StrictlyAscending(ElementEncodings(elems[i].b))
    /\ ( FailedAtValue
         /\ IsSetType(IF rdFormat = "bzng" THEN LineTag ELSE rdTags[LineTag])
         /\ ~StrictlyAscending(LineEncodings) )
       => rdErr = "SetNotSorted"

\* #0:set[string] followed by 0:[world;hello;] has been rejected.
C24_Witness ==
    /\ rdFormat = "zng" /\ rdPc = "failed" /\ rdErr = "SetNotSorted"
    /\ rdStream = <<TypedefLine(0, SetTypeText),
                    ValueLine(0, <<"[", "world", ";", "hello", ";", "]">>)>>

\* The value handed to ContainerLength is of a set or of a vector type.
LengthOfContainer == clE.Type # Nil /\ heap[clE.Type].kind \in {"set", "vector"}

\* C25: ContainerLength.  For a value of a set or vector type with a body
\* that is not nil and is well formed it returns the number of elements the
\* body was encoded from, 0 for the empty body; with a nil body it returns
\* -1 and ErrLenUnset; for a value of any other type, a record type among
\* them, it returns -1 and ErrNotContainer; and with a body that ends
\* inside an element it returns -1 and the iterator's error.
C25_ContainerLength ==
    clRet # NoLength =>
    /\ (LengthOfContainer /\ ~clE.Body.isnil /\ clElems >= 0) =>
          clRet = Length(clElems, "")
    /\ (LengthOfContainer /\ clE.Body.isnil) => clRet = Length(-1, "ErrLenUnset")
    /\ ~LengthOfContainer => clRet = Length(-1, "ErrNotContainer")
    /\ (LengthOfContainer /\ ~clE.Body.isnil /\ clElems < 0) =>
          clRet = Length(-1, "truncated")

\* The length of a set of two elements has been returned.
C25_Witness ==
    /\ clE.Type = TypeSetString /\ clElems = 2
    /\ clRet = Length(2, "")

\* The step is a call of a method of ProcTest that calls Pull.
Pulling == ptOps' = ptOps + 1 /\ ptRet'.op \in {"Pull", "Expect", "ExpectEOS"}

\* The step calls the proc under test.
ProcCalled == compiledProc'.idx = compiledProc.idx + 1

\* C26: the end-of-stream latch of ProcTest.  A step sets eos exactly when
\* it is a Pull, an Expect or an ExpectEOS in which the proc under test
\* returns a nil batch and a nil error; eos is never reset; every such call
\* made with eos set returns the error "called Pull() after EOS" and leaves
\* the proc under test uncalled; and a call in which the proc returns an
\* error leaves eos unset.
C26_EOSLatch ==
    [][ /\ eos => eos'
        /\ (eos' /\ ~eos) =>
              Pulling /\ ProcCalled /\ ProcResponse.b.isnil /\ ProcResponse.err = ""
        /\ (ProcCalled /\ ProcResponse.b.isnil /\ ProcResponse.err = "") => eos'
        /\ (ProcCalled /\ ProcResponse.err # "") => ~eos'
        /\ (ProcCalled /\ ~ProcResponse.b.isnil) => ~eos'
        /\ (Pulling /\ ~eos) => ProcCalled
        /\ (Pulling /\ eos) =>
              /\ ptRet'.err = "called Pull() after EOS"
              /\ ptRet'.b = NilBatch
              /\ compiledProc' = compiledProc ]_vars

\* Expect has returned the error of a Pull after the end of the stream,
\* with the proc under test not called again though its script goes on.
C26_Witness ==
    /\ eos /\ ptRet.op = "Expect" /\ ptRet.err = "called Pull() after EOS"
    /\ compiledProc.idx = 1 /\ Len(compiledProc.script) = 2

\* C27: ProcTest.Finish.  Finish returns nil exactly when eos is set and the
\* channel of warnings is empty as it is called, and otherwise an error;
\* eos is set only after a Pull in which the proc under test returned a nil
\* batch and a nil error; and Finish can always return, whatever the channel
\* holds.
C27_Finish ==
    /\ [][ (ptOps' = ptOps + 1 /\ ptRet'.op = "Finish") =>
              ( (ptRet'.err = "") <=> (eos /\ Warnings = <<>>) ) ]_vars
    /\ [](eos => /\ compiledProc.idx >= 1
                 /\ \/ compiledProc.idx > Len(compiledProc.script)
                    \/ LET r == compiledProc.script[compiledProc.idx]
                       IN r.b.isnil /\ r.err = "")
    /\ [](ptOps < MaxTestOps => ENABLED Finish)

\* Finish has returned nil after the end of the stream, a warning sent
\* meanwhile having been received by ExpectWarning.
C27_Witness ==
    /\ ptRet.op = "Finish" /\ ptRet.err = "" /\ eos
    /\ ptOps = 3 /\ compiledProc.idx = 1
    /\ compiledProc.script = <<Response(NilBatch, "", "w")>>

\* The numeral is a base-10 integer of 64 bits: an optional sign, then
\* digits of a magnitude of at most 1<<63 - 1, or 1<<63 behind a minus.
Int64Numeral(s) ==
    LET signed == s # <<>> /\ s[1] \in {"+", "-"}
        d == IF signed THEN Tail(s) ELSE s
        vals == [i \in 1..Len(StripZeros(d)) |-> DigitVal(StripZeros(d)[i])]
        cut == [i \in 1..Len(Cutoff64) |-> DigitVal(Cutoff64[i])]
    IN /\ d # <<>>
       /\ \A i \in 1..Len(d) : IsDigit(d[i])
       /\ \/ Len(vals) < Len(cut)
          \/ Len(vals) = Len(cut) /\ LexLess(vals, cut)
          \/ vals = cut /\ signed /\ s[1] = "-"

RECURSIVE FirstFault(_)
\* The first node of the path, from the outermost one, that cannot be
\* compiled: "call" for a FieldCall of an Fn other than Index and
\* RecordFieldRead, "param" for an Index whose parameter is no integer,
\* "node" for a node that is neither a FieldRead nor a FieldCall, "" if
\* there is none.
FirstFault(node) ==
    IF node = <<>> THEN "node"
    ELSE IF node[1].node = "FieldRead" THEN ""
    ELSE IF node[1].node # "FieldCall" THEN "node"
    ELSE IF node[1].Fn \notin {"Index", "RecordFieldRead"} THEN "call"
    ELSE IF node[1].Fn = "Index" /\ ~Int64Numeral(node[1].Param) THEN "param"
    ELSE FirstFault(Tail(node))

\* The error CompileFieldExpr returns for a fault.
FaultError(fault) ==
    CASE fault = "call" -> {"unknown FieldCall"}
      [] fault = "param" -> {"invalid syntax", "value out of range"}
      [] fault = "node" -> {"filter AST unknown field op"}
      [] OTHER -> {""}

\* C28: compilation failure.  CompileFieldExpr returns an error, and no
\* resolver, exactly for a path with a FieldCall of an Fn other than Index
\* and RecordFieldRead, Len among them, with an Index whose parameter is no
\* base-10 integer of 64 bits, or with a node that is neither a FieldRead
\* nor a FieldCall; CompileFieldExprs returns nil and the error of the first
\* node that fails, and with no such node one resolver for each node, in
\* the order of the nodes; for nil nodes it returns nil and no error.
C28_CompilationFailure ==
    /\ \A i \in 1..Len(cfNodes.elems) :
          LET c == CompileLoop(cfNodes.elems[i], <<>>) IN
          /\ c.err \in FaultError(FirstFault(cfNodes.elems[i]))
          /\ c.err # "" => c.field = "" /\ c.ops = <<>>
    /\ cfRet # NotCompiled =>
          LET failed == {i \in 1..Len(cfNodes.elems) : FirstFault(cfNodes.elems[i]) # ""} IN
          /\ failed # {} =>
                LET first == CHOOSE i \in failed : \A j \in failed : i <= j IN
                /\ cfRet.isnil /\ cfRet.resolvers = <<>>
                /\ cfRet.err \in FaultError(FirstFault(cfNodes.elems[first]))
          /\ failed = {} =>
                /\ cfRet.err = ""
                /\ cfRet.isnil = cfNodes.isnil
                /\ Len(cfRet.resolvers) = Len(cfNodes.elems)
                /\ \A i \in 1..Len(cfNodes.elems) :
                      LET node == cfNodes.elems[i]
                          k == Len(node) - 1
                      IN /\ cfRet.resolvers[i].field = node[k + 1].Field
                         /\ Len(cfRet.resolvers[i].ops) = k
                         /\ \A j \in 1..k : cfRet.resolvers[i].ops[j] = OpOf(node[k + 1 - j])

\* Of two nodes the first compiles and the second calls Len: nil and the
\* error of the second have been returned.
C28_Witness ==
    /\ Len(cfNodes.elems) = 2
    /\ FirstFault(cfNodes.elems[1]) = "" /\ FirstFault(cfNodes.elems[2]) = "call"
    /\ cfRet = Resolvers(TRUE, <<>>, "unknown FieldCall")

\* ---------------------------------------------------------------------- C29

SharedPCs == {"pt_rlock1", "pt_rlock2", "ltr_rlock"}

ExclusivePCs == {"at_lock", "ltr_lock"}

Requesting(t, pcs) == stack[t] # <<>> /\ top(t).pc \in pcs

Holding(t) == t \in typeMapMutex.readers \/ typeMapMutex.writer = t

\* C29: interning never deadlocks.  No goroutine asks for the exclusive lock
\* (or for the shared lock again) while it still holds the mutex in either
\* mode, a goroutine whose call has run to its end holds nothing, and under
\* fair scheduling every LookupType, LookupVectorType and LookupTypeRecord
\* call that was started eventually returns.
C29_NoDeadlock ==
    /\ [](\A t \in Threads :
            Requesting(t, ExclusivePCs \cup SharedPCs) => ~Holding(t))
    /\ [](\A t \in Threads : stack[t] = <<>> => ~Holding(t))
    /\ \A t \in Threads : (call[t].op # "idle") ~> Returned(t)

\* Two calls contend: one goroutine waits for the exclusive lock, having
\* released its shared lock, while the other one holds the mutex.
C29_Witness ==
    \E t, u \in Threads :
        /\ t # u
        /\ Requesting(t, ExclusivePCs) /\ ~Holding(t)
        /\ Holding(u)
        /\ call[t].op \in {"LookupType", "LookupVectorType", "LookupTypeRecord"}

====
